---- MODULE Spec2Model ----
(***************************************************************************)
(* Verification model of the serverless staking worker: the Redis rate     *)
(* limiter (utils/rate-limit.ts), the stake write/read paths               *)
(* (stake/service.ts), the record and listing cache (utils/cache.ts) and   *)
(* the retrying database service (db-service.ts).                          *)
(*                                                                         *)
(* Every request is a process.  A process yields only at an `await`; each  *)
(* action below is the code between two awaits together with the single    *)
(* store command the await waits for.  Redis executes each command (and    *)
(* each Lua script) atomically.                                            *)
(***************************************************************************)
EXTENDS Integers, Sequences, FiniteSets, TLC

VARIABLES
  now,        \* the clock, in seconds (Date.now() is now * 1000)
  workload,   \* what the requests of this run may ask for (fixed by Init)
  pc,         \* per request: where it is
  \* ---- rate limiter
  redisRate,  \* Redis: the rate counters, key -> [count, expireAt]
  ghostRate,  \* history: per live counter, when it was created and how many calls it admitted
  req,        \* per request: the arguments of applyRateLimit
  stage,      \* per request: 1 = the global check is in flight, 2 = the endpoint check
  snap,       \* history: the count of the key when the check in flight was issued
              \* (Null once the window it was read in has ended)
  evald,      \* history: the checks this applyRateLimit made, in order, with their outcomes
  rlResult,   \* per request: how applyRateLimit ended
  \* ---- stakes
  dbRows,     \* the stakes table, in insertion order
  redis,      \* Redis: the stake hashes, the page lists, the id lists and the counters
  loc,        \* per request: the local variables of createStake / getStakes
  result,     \* per request: what createStake / getStakes returned or threw
  hist,       \* history, per request: what the call has done so far
  acked,      \* history: the ids of the stakes whose createStake has returned success
  \* ---- db-service.ts
  conn        \* the module's session (sqlClient, lastConnectionTime), the sessions
              \* opened so far and the session of each request's DbService

rateVars == <<redisRate, ghostRate, req, stage, snap, evald, rlResult>>
stakeVars == <<dbRows, redis, loc, result, hist, acked, conn>>
vars == <<now, workload, pc, redisRate, ghostRate, req, stage, snap, evald, rlResult,
          dbRows, redis, loc, result, hist, acked, conn>>

----------------------------------------------------------------------------
(* Bounds of the model *)

\* the clock stops advancing here
MaxTime == 3
\* the window of every scope (60 s in the code), in ticks
Window == 2
\* the limits of the scopes (100 / 10 / 20 / 60 in the code), scaled down
GlobalLimit == 2
AuthLimit == 1
StakeCreateLimit == 1
StakeGetLimit == 1
\* the stake cache policy (ttl 300 s, stale time 300 s in the code), in ticks
StakeTtl == 1
StakeStaleTime == 2
\* the stakes table holds at most this many rows
MaxRows == 2
\* for (let attempt = 1; attempt <= 3; attempt++)
DbAttempts == 3
\* MAX_CACHE_RETRIES
MAX_CACHE_RETRIES == 2
\* the amounts and periods the requests ask for
Amounts == {5}
Periods == {3}
\* the failures a request meets at most
MaxFaults == 3
\* CONNECTION_MAX_AGE (30 minutes in the code), in ticks
ConnectionMaxAge == 1
\* the page sizes the reads ask for
PageLimits == {1, 2}

Procs == {"p1", "p2"}
\* JavaScript null / Redis nil
Null == -1
IPs == {"a"}
\* the only registered user has id 1 (user/repository.ts)
UserIds == {1}
\* a key without expiry (what Redis TTL reports as -1)
NoExpiry == -1

----------------------------------------------------------------------------
(* utils/rate-limit.ts *)

defaultRateLimits(configKey) ==
  CASE configKey = "auth" ->
         [limit |-> AuthLimit, window |-> Window, identifier |-> "auth"]
    [] configKey = "stakeCreate" ->
         [limit |-> StakeCreateLimit, window |-> Window, identifier |-> "stake:create"]
    [] configKey = "stakeGet" ->
         [limit |-> StakeGetLimit, window |-> Window, identifier |-> "stake:get"]
    [] configKey = "global" ->
         [limit |-> GlobalLimit, window |-> Window, identifier |-> "global"]

\* the limit of the scope a key counts
LimitOfIdentifier(identifier) ==
  CASE identifier = "auth" -> AuthLimit
    [] identifier = "stake:create" -> StakeCreateLimit
    [] identifier = "stake:get" -> StakeGetLimit
    [] identifier = "global" -> GlobalLimit

\* JavaScript truthiness of `userId` (number | null): null and 0 are falsy
Truthy(userId) == userId # Null /\ userId # 0

\* the counter is always that of the origin
RateKeyByIp(ip, userId, config) == <<"ratelimit", config.identifier, "ip", ip>>

\* const key = userId ? `ratelimit:${identifier}:user:${userId}` : `ratelimit:${identifier}:ip:${ip}`
RateKey(ip, userId, config) ==
  IF Truthy(userId)
    THEN <<"ratelimit", config.identifier, "user", userId>>
    ELSE <<"ratelimit", config.identifier, "ip", ip>>

\* Redis GET: nil (modelled as Null) for a key that does not exist
RedisGet(store, key) ==
  IF key \in DOMAIN store THEN store[key].count ELSE Null

\* Redis INCR: creates the key at 1 with no expiry, or adds one and keeps the expiry
RedisIncr(store, key) ==
  IF key \in DOMAIN store
    THEN [store EXCEPT ![key].count = @ + 1]
    ELSE [k \in DOMAIN store \cup {key} |->
            IF k = key THEN [count |-> 1, expireAt |-> NoExpiry] ELSE store[k]]

\* Redis EXPIRE key seconds: the key is gone `seconds` from now
RedisExpire(store, key, seconds) ==
  IF key \in DOMAIN store
    THEN [store EXCEPT ![key].expireAt = now + seconds]
    ELSE store

\* `count > limit`: one call too many is admitted
LuaExceededOffByOne(count, limit) == count > limit

\* if count >= limit then exceeded = 1
LuaExceeded(count, limit) == count >= limit

\* the expiry is set by every admitted check (a sliding window)
LuaNeedsExpireAlways(count) == TRUE

\* the expiry is never set: a counter lives for ever
LuaNeedsExpireNever(count) == FALSE

\* if count == 1 then redis.call('expire', key, window)
LuaNeedsExpire(count) == count = 1

\* the counter is incremented before the limit is tested
luaScriptIncrFirst(store, key, limit, window) ==
  LET incremented == RedisIncr(store, key)
      newCount == incremented[key].count
      withExpiry == IF newCount = 1 THEN RedisExpire(incremented, key, window)
                                    ELSE incremented
  IN [store |-> withExpiry, count |-> newCount,
      exceeded |-> IF newCount > limit THEN 1 ELSE 0]

\* The Lua script, run by Redis as one indivisible operation.
\* Returns the store after it and the reply {count, exceeded}.
luaScript(store, key, limit, window) ==
  LET current == RedisGet(store, key)
      count == IF current # Null THEN current ELSE 0
  IN IF LuaExceeded(count, limit)
       THEN [store |-> store, count |-> count, exceeded |-> 1]
       ELSE LET incremented == RedisIncr(store, key)
                newCount == incremented[key].count
            IN [store |-> IF LuaNeedsExpire(newCount)
                            THEN RedisExpire(incremented, key, window)
                            ELSE incremented,
                count |-> newCount,
                exceeded |-> 0]

\* the endpoint's limit is checked before the global one
ConfigOfStageEndpointFirst(p) ==
  IF stage[p] = 1 THEN defaultRateLimits(req[p].configKey)
                  ELSE defaultRateLimits("global")

\* the configuration of the check in flight: global first, then the endpoint's
ConfigOfStage(p) ==
  IF stage[p] = 1 THEN defaultRateLimits("global")
                  ELSE defaultRateLimits(req[p].configKey)

\* both checks count on the global key
KeyOfStageGlobal(p) == RateKey(req[p].ip, req[p].userId, defaultRateLimits("global"))

\* the key of the check in flight
KeyOfStage(p) == RateKey(req[p].ip, req[p].userId, ConfigOfStage(p))

NoReq == [ip |-> "", userId |-> Null, configKey |-> ""]
NoResult == [kind |-> "none", scope |-> ""]

\* history: the count of a key when a check of it is issued (0 when absent)
CountOf(store, key) ==
  IF key \in DOMAIN store THEN store[key].count ELSE 0

\* history: one check made by checkRateLimit; `brink` says that the counter stood
\* at limit - 1 when the check was issued, `cur` that the script ran
\* in the window the key is in now (a tick that expires the key clears it)
Entry(key, outcome, issued, ran) ==
  [key |-> key, outcome |-> outcome,
   brink |-> (issued = LimitOfIdentifier(key[2]) - 1), cur |-> ran]

\* history of the counters: a counter's record is made when the key is created;
\* `late` says that a check at a later second than the first was admitted
GhostAfter(store, store2, ghost, key, admittedNow) ==
  IF key \notin DOMAIN store2 THEN ghost
  ELSE IF key \notin DOMAIN store
    THEN [k \in DOMAIN ghost \cup {key} |->
            IF k = key THEN [firstAt |-> now, admitted |-> 1, late |-> FALSE]
                       ELSE ghost[k]]
    ELSE [ghost EXCEPT ![key].admitted = @ + admittedNow,
                       ![key].late = @ \/ (admittedNow = 1 /\ now > ghost[key].firstAt)]

\* applyRateLimit(request, redis, userId, configKey): reads the client IP and
\* calls checkRateLimit for the global scope, which issues redis.eval
ApplyRateLimit(p) ==
  /\ pc[p] = "idle"
  /\ \E ip \in workload.ips, userId \in workload.users \cup {Null},
        configKey \in workload.endpoints :
       \* the handlers: handleAuth passes null, the stake handlers pass user.id
       /\ (configKey = "auth") <=> (userId = Null)
       /\ req' = [req EXCEPT ![p] = [ip |-> ip, userId |-> userId, configKey |-> configKey]]
       /\ snap' = [snap EXCEPT ![p] =
                     CountOf(redisRate, RateKey(ip, userId, defaultRateLimits("global")))]
  /\ pc' = [pc EXCEPT ![p] = "check"]
  /\ stage' = [stage EXCEPT ![p] = 1]
  /\ evald' = [evald EXCEPT ![p] = <<>>]
  /\ rlResult' = [rlResult EXCEPT ![p] = NoResult]
  /\ UNCHANGED <<now, workload, redisRate, ghostRate, stakeVars>>

\* what checkRateLimit's caller does once the check in flight has not thrown:
\* after the global check applyRateLimit issues the endpoint's, after that it returns
CheckPassed(p, store2) ==
  IF stage[p] = 1
    THEN /\ stage' = [stage EXCEPT ![p] = 2]
         /\ pc' = pc
         /\ snap' = [snap EXCEPT ![p] =
               CountOf(store2, RateKey(req[p].ip, req[p].userId,
                                       defaultRateLimits(req[p].configKey)))]
         /\ rlResult' = rlResult
    ELSE /\ stage' = stage
         /\ pc' = [pc EXCEPT ![p] = "returned"]
         /\ snap' = [snap EXCEPT ![p] = 0]
         /\ rlResult' = [rlResult EXCEPT ![p] = [kind |-> "ok", scope |-> ""]]

\* a client-side read-then-increment: the limit is tested against the count
\* read when the check was issued, the increment lands later
ScriptReplyRacy(p) ==
  LET config == ConfigOfStage(p)
      key == KeyOfStage(p)
  IN IF snap[p] >= config.limit
       THEN [store |-> redisRate, count |-> snap[p], exceeded |-> 1]
       ELSE LET incremented == RedisIncr(redisRate, key)
            IN [store |-> IF incremented[key].count = 1
                            THEN RedisExpire(incremented, key, config.window)
                            ELSE incremented,
                count |-> incremented[key].count,
                exceeded |-> 0]

\* redis.eval(luaScript, [key], [limit, window]) against the store as it is
\* when the script runs
ScriptReply(p) ==
  luaScript(redisRate, KeyOfStage(p), ConfigOfStage(p).limit, ConfigOfStage(p).window)

\* redis.eval runs the script and its reply arrives: exceeded throws
\* RateLimitError, which the catch rethrows and applyRateLimit lets through
CheckRateLimitEval(p) ==
  /\ pc[p] = "check"
  /\ LET config == ConfigOfStage(p)
         key == KeyOfStage(p)
         r == ScriptReply(p)
     IN /\ redisRate' = r.store
        /\ ghostRate' = GhostAfter(redisRate, r.store, ghostRate, key, 1 - r.exceeded)
        /\ IF r.exceeded = 1
             THEN /\ evald' = [evald EXCEPT ![p] =
                       Append(@, Entry(key, "exceeded", snap[p], TRUE))]
                  /\ rlResult' = [rlResult EXCEPT ![p] =
                       [kind |-> "RateLimitError", scope |-> config.identifier]]
                  /\ pc' = [pc EXCEPT ![p] = "returned"]
                  /\ snap' = [snap EXCEPT ![p] = 0]
                  /\ stage' = stage
             ELSE /\ evald' = [evald EXCEPT ![p] =
                       Append(@, Entry(key, "ok", snap[p], TRUE))]
                  /\ CheckPassed(p, r.store)
  /\ UNCHANGED <<now, workload, req, stakeVars>>

\* fail-closed: the error of redis.eval is thrown as a RateLimitError
CheckRateLimitErrorClosed(p) ==
  /\ pc[p] = "check"
  /\ evald' = [evald EXCEPT ![p] =
                 Append(@, Entry(KeyOfStage(p), "error", snap[p], FALSE))]
  /\ rlResult' = [rlResult EXCEPT ![p] =
                    [kind |-> "RateLimitError", scope |-> ConfigOfStage(p).identifier]]
  /\ pc' = [pc EXCEPT ![p] = "returned"]
  /\ snap' = [snap EXCEPT ![p] = 0]
  /\ UNCHANGED <<now, workload, req, stage, redisRate, ghostRate, stakeVars>>

\* redis.eval rejects (the store is unreachable, or the reply is lost after the
\* script ran): the catch logs the error and checkRateLimit returns normally
CheckRateLimitError(p) ==
  /\ pc[p] = "check"
  /\ \E scriptRan \in BOOLEAN :
       LET key == KeyOfStage(p)
           r == ScriptReply(p)
           store2 == IF scriptRan THEN r.store ELSE redisRate
       IN /\ redisRate' = store2
          /\ ghostRate' = IF scriptRan
                            THEN GhostAfter(redisRate, store2, ghostRate, key, 1 - r.exceeded)
                            ELSE ghostRate
          /\ evald' = [evald EXCEPT ![p] = Append(@, Entry(key, "error", snap[p], scriptRan))]
          /\ CheckPassed(p, store2)
  /\ UNCHANGED <<now, workload, req, stakeVars>>

\* the handler is done with the outcome of applyRateLimit; the request ends
RequestEnd(p) ==
  /\ pc[p] = "returned"
  /\ pc' = [pc EXCEPT ![p] = "idle"]
  /\ req' = [req EXCEPT ![p] = NoReq]
  /\ stage' = [stage EXCEPT ![p] = 0]
  /\ evald' = [evald EXCEPT ![p] = <<>>]
  /\ rlResult' = [rlResult EXCEPT ![p] = NoResult]
  /\ UNCHANGED <<now, workload, redisRate, ghostRate, snap, stakeVars>>

----------------------------------------------------------------------------
(* The Redis commands of the stake cache.  A store maps a key to            *)
(* [type, ..., expireAt]; a key that is not in the domain does not exist.   *)

\* `stake:${id}`
StakeKey(id) == <<"stake", id>>
\* `user:${userId}:stakes`
CounterKey(userId) == <<"user", userId, "stakes">>
\* `user:${userId}:stake_ids`
UserStakesKey(userId) == <<"user", userId, "stake_ids">>
\* `user:${userId}:stakes:page:${page}:limit:${limit}`
PageKey(userId, page, limit) == <<"user", userId, "stakes", "page", page, "limit", limit>>

\* the pattern names one page size only
MatchesOnePageSize(key, userId) ==
  /\ Len(key) >= 7
  /\ key[1] = "user" /\ key[2] = userId /\ key[3] = "stakes" /\ key[4] = "page"
  /\ key[7] = 1

\* the pattern is `user:${userId}:*`: every key of the owner
MatchesOwnerPrefix(key, userId) ==
  /\ Len(key) >= 3
  /\ key[1] = "user" /\ key[2] = userId

\* the keys matching `user:${userId}:stakes:page:*`
MatchesPagePattern(key, userId) ==
  /\ Len(key) >= 4
  /\ key[1] = "user" /\ key[2] = userId /\ key[3] = "stakes" /\ key[4] = "page"

\* KEYS pattern
RedisKeys(store, userId) == {k \in DOMAIN store : MatchesPagePattern(k, userId)}

RedisPut(store, key, value) ==
  [k \in DOMAIN store \cup {key} |-> IF k = key THEN value ELSE store[k]]

\* HSET key field value ...: sets the fields, keeps the expiry of an existing key
RedisHSet(store, key, fields) ==
  RedisPut(store, key,
    [type |-> "hash", fields |-> fields,
     expireAt |-> IF key \in DOMAIN store THEN store[key].expireAt ELSE NoExpiry])

\* HGETALL key: the fields, or nothing for a key that does not exist
RedisHGetAll(store, key) ==
  IF key \in DOMAIN store THEN <<store[key].fields>> ELSE <<>>

\* the elements of a list, empty for a key that does not exist
RedisList(store, key) ==
  IF key \in DOMAIN store THEN store[key].items ELSE <<>>

\* LRANGE key 0 stop
RedisLRange(store, key, stop) ==
  LET items == RedisList(store, key)
  IN SubSeq(items, 1, IF stop + 1 < Len(items) THEN stop + 1 ELSE Len(items))

\* LPOS key element: Null when the element is not in the list
RedisLPos(store, key, element) ==
  LET items == RedisList(store, key)
      at == {i \in DOMAIN items : items[i] = element}
  IN IF at = {} THEN Null ELSE (CHOOSE i \in at : \A j \in at : i <= j) - 1

\* LPUSH key element
RedisLPush(store, key, element) ==
  RedisPut(store, key,
    [type |-> "list", items |-> <<element>> \o RedisList(store, key),
     expireAt |-> IF key \in DOMAIN store THEN store[key].expireAt ELSE NoExpiry])

\* RPUSH key element ...
RedisRPush(store, key, elements) ==
  RedisPut(store, key,
    [type |-> "list", items |-> RedisList(store, key) \o elements,
     expireAt |-> IF key \in DOMAIN store THEN store[key].expireAt ELSE NoExpiry])

\* DEL key ...
RedisDel(store, keys) == [k \in DOMAIN store \ keys |-> store[k]]

\* INCR of a plain counter key
RedisIncrCounter(store, key) ==
  RedisPut(store, key,
    [type |-> "string", n |-> (IF key \in DOMAIN store THEN store[key].n ELSE 0) + 1,
     expireAt |-> IF key \in DOMAIN store THEN store[key].expireAt ELSE NoExpiry])

\* Date.now(), in milliseconds
DateNow == now * 1000

\* defaultCacheConfigs.stake
StakeCacheConfig == [ttl |-> StakeTtl, staleWhileRevalidate |-> TRUE, staleTime |-> StakeStaleTime]

\* the expiry is ttl under every policy
CacheExpiryTtl(config) == config.ttl

\* config.staleWhileRevalidate && config.staleTime ? ttl + staleTime : ttl
CacheExpiry(config) ==
  IF config.staleWhileRevalidate /\ config.staleTime # 0
    THEN config.ttl + config.staleTime
    ELSE config.ttl

----------------------------------------------------------------------------
(* db-service.ts: the stakes table *)

\* created_at ... DEFAULT CURRENT_TIMESTAMP: a reading of the database clock
\* later than every reading so far
LaterTimestamp(rows) ==
  IF rows = <<>> THEN 1 ELSE rows[Len(rows)].createdAt + 1

\* amount DECIMAL NOT NULL: the driver hands a DECIMAL column to the program
\* as the text of the number, INTEGER columns as numbers
DecimalText(amount) == [text |-> amount]

\* INSERT INTO stakes ... RETURNING: id is the next serial number, created_at
\* the reading of the database clock given
InsertedRowAt(rows, userId, amount, period, createdAt) ==
  [id |-> Len(rows) + 1, amount |-> DecimalText(amount), period |-> period,
   userId |-> userId, createdAt |-> createdAt]

\* an insertion whose clock reading is later than every earlier one
InsertedRow(rows, userId, amount, period) ==
  InsertedRowAt(rows, userId, amount, period, LaterTimestamp(rows))

RECURSIVE SelectUser(_, _)
\* WHERE user_id = $1 ORDER BY created_at DESC
SelectUser(rows, userId) ==
  IF rows = <<>> THEN <<>>
  ELSE LET rest == SelectUser(SubSeq(rows, 1, Len(rows) - 1), userId)
           last == rows[Len(rows)]
       IN IF last.userId = userId THEN <<last>> \o rest ELSE rest

\* the orders ORDER BY created_at DESC allows for the rows of a user: rows
\* of equal created_at may come in either order
SelectUserOrders(rows, userId) ==
  LET all == SelectUser(rows, userId)
      n == Len(all)
      perms == {f \in [1..n -> 1..n] : \A i, j \in 1..n : f[i] = f[j] => i = j}
  IN {[i \in 1..n |-> all[f[i]]] : f \in
        {g \in perms : \A i, j \in 1..n :
           i < j => all[g[i]].createdAt >= all[g[j]].createdAt}}

\* const offset = (page - 1) * limit;  ... LIMIT $2 OFFSET $3
LimitOffset(all, page, limit) ==
  LET offset == (page - 1) * limit
      last == IF offset + limit < Len(all) THEN offset + limit ELSE Len(all)
  IN SubSeq(all, offset + 1, last)

\* the page of a table whose rows have distinct created_at
QueryStakes(rows, userId, page, limit) ==
  LimitOffset(SelectUser(rows, userId), page, limit)

\* Redis drops a key once its expiry is reached
Live(store, t) ==
  [k \in {x \in DOMAIN store : store[x].expireAt = NoExpiry \/ store[x].expireAt > t} |->
     store[k]]

\* history: of the page entries that were cached when a createStake
\* persisted its row, those that have been in the store ever since
StillPending(h, store2) ==
  [q \in Procs |-> [h[q] EXCEPT !.pending = @ \cap DOMAIN store2]]

\* one second passes
Tick ==
  /\ now < MaxTime
  /\ now' = now + 1
  /\ redisRate' = Live(redisRate, now + 1)
  /\ ghostRate' = [k \in DOMAIN Live(redisRate, now + 1) |-> ghostRate[k]]
  /\ evald' = [p \in Procs |->
       [i \in DOMAIN evald[p] |->
          [evald[p][i] EXCEPT !.cur = @ /\ evald[p][i].key \in DOMAIN Live(redisRate, now + 1)]]]
  /\ snap' = [p \in Procs |->
       IF pc[p] = "check" /\ KeyOfStage(p) \in DOMAIN redisRate
                          /\ KeyOfStage(p) \notin DOMAIN Live(redisRate, now + 1)
         THEN Null ELSE snap[p]]
  /\ redis' = Live(redis, now + 1)
  /\ hist' = StillPending(hist, Live(redis, now + 1))
  /\ UNCHANGED <<workload, pc, req, stage, rlResult, dbRows, loc, result, acked, conn>>

----------------------------------------------------------------------------
(* Requests of the stake service: local state *)

\* Number.prototype.toString / Date.prototype.toISOString: the text of a value
toString(n) == [text |-> n]
\* parseInt / parseFloat / new Date(text): the value a text denotes
parseInt(s) == s.text

\* toString of a value that is a string already
stringToString(s) == s

\* parseFloat: the number a decimal text denotes, a value of another type
\* than the text
parseFloat(s) == [float |-> s.text]

NoLoc ==
  [op |-> "none", userId |-> Null, amount |-> 0, period |-> 0, page |-> 0, limit |-> 0,
   attempt |-> 0, dbStake |-> <<>>, keys |-> {}, cs |-> <<>>,
   cachedStakeIds |-> <<>>, gs |-> <<>>, dbStakes |-> <<>>]

NoHist == [touched |-> FALSE, dbError |-> FALSE, inserted |-> {}, mustSee |-> {},
           answered |-> FALSE, faults |-> 0, tries |-> 0, rowsSeen |-> 0,
           atPersist |-> {}, pending |-> {}]

NoOutcome == [kind |-> "none", stakeId |-> Null, items |-> <<>>, fromCache |-> FALSE]

\* return { success: true, stakeId: dbStake.id }
Success(stakeId) == [kind |-> "success", stakeId |-> stakeId, items |-> <<>>, fromCache |-> FALSE]

\* return { items, fromCache }
Page(items, fromCache) == [kind |-> "page", stakeId |-> Null, items |-> items, fromCache |-> fromCache]

\* the error a request ends with
Thrown(kind) == [kind |-> kind, stakeId |-> Null, items |-> <<>>, fromCache |-> FALSE]

\* every error is rethrown as a generic Error
ServiceCatchGeneric(error) == "Error"

\* catch (error) { if (error instanceof DatabaseError) throw error; throw new Error(...) }
ServiceCatch(error) == IF error = "DatabaseError" THEN "DatabaseError" ELSE "Error"

\* one call of cacheStake: the stake, the await it is at, the attempt it is in
CacheStakeCall(stake) == [stake |-> stake, step |-> "hset", attempt |-> 0]

\* one call of getCachedStake
GetCachedStakeCall(id) ==
  [id |-> id, attempt |-> 0, done |-> FALSE, stake |-> <<>>, isStale |-> FALSE]

AllCached(cs) == \A i \in DOMAIN cs : cs[i].step = "done"

\* items = stakes.map((stake) => ({ id, amount, period }))
Items(stakes) ==
  [i \in DOMAIN stakes |->
     [id |-> stakes[i].id, amount |-> stakes[i].amount, period |-> stakes[i].period]]

Touch(p) == [hist EXCEPT ![p].touched = TRUE]

\* a command of request p to Redis fails
Failed(p) == [hist EXCEPT ![p].touched = TRUE, ![p].faults = @ + 1]

----------------------------------------------------------------------------
(* db-service.ts: DbService.init, createStake, getStakes with their retries *)

\* createStake(userId, createStakeDto, db, redis) is called: await db.init()
CreateStake(p) ==
  /\ pc[p] = "idle"
  /\ p \in workload.clients
  /\ Len(dbRows) < MaxRows
  /\ \E userId \in workload.owners, amount \in Amounts, period \in Periods :
       loc' = [loc EXCEPT ![p] = [NoLoc EXCEPT !.op = "create", !.userId = userId,
                 !.amount = amount, !.period = period, !.attempt = 1]]
  /\ pc' = [pc EXCEPT ![p] = "db.init"]
  /\ result' = [result EXCEPT ![p] = NoOutcome]
  /\ hist' = [hist EXCEPT ![p] = NoHist]
  /\ UNCHANGED <<now, workload, rateVars, conn, dbRows, redis, acked>>

\* an attempt of DbService.init succeeds: the table exists
DbInit(p) ==
  /\ pc[p] = "db.init"
  /\ pc' = [pc EXCEPT ![p] = IF loc[p].op = "create" THEN "db.createStake" ELSE "db.getStakes"]
  /\ loc' = [loc EXCEPT ![p].attempt = 1]
  /\ hist' = [hist EXCEPT ![p].tries = 0]
  /\ UNCHANGED <<now, workload, rateVars, conn, dbRows, redis, result, acked>>

\* CURRENT_TIMESTAMP of the insert of request p: a later reading of the
\* database clock, or, where the workload has requests arrive close enough,
\* the reading of the last insert when that was made by a request of another
\* client that is still in progress
CurrentTimestamps(p) ==
  {LaterTimestamp(dbRows)} \cup
    {dbRows[n].createdAt : n \in
       {m \in {Len(dbRows)} : /\ workload.ties
                              /\ m > 0
                              /\ \E q \in Procs \ {p} :
                                   pc[q] # "idle" /\ m \in hist[q].inserted}}

\* an attempt of DbService.createStake succeeds: the row is inserted and
\* returned; createStake goes on to await cacheStake(redis, dbStake)
DbCreateStake(p) ==
  /\ pc[p] = "db.createStake"
  /\ Len(dbRows) < MaxRows
  /\ \E createdAt \in CurrentTimestamps(p) :
     LET stake == InsertedRowAt(dbRows, loc[p].userId, loc[p].amount, loc[p].period,
                                createdAt)
     IN /\ dbRows' = Append(dbRows, stake)
        /\ loc' = [loc EXCEPT ![p].dbStake = <<stake>>, ![p].cs = <<CacheStakeCall(stake)>>]
        /\ hist' = [hist EXCEPT ![p].inserted = @ \cup {stake.id}, ![p].tries = 0,
                      ![p].atPersist = RedisKeys(redis, loc[p].userId),
                      ![p].pending = RedisKeys(redis, loc[p].userId)]
  /\ pc' = [pc EXCEPT ![p] = "cacheStake"]
  /\ UNCHANGED <<now, workload, rateVars, conn, redis, result, acked>>

\* the last failure is swallowed: the call ends with an empty normal result
DbFaultSwallowed(p) ==
  /\ hist[p].faults < MaxFaults
  /\ pc[p] \in {"db.init", "db.createStake", "db.getStakes"}
  /\ IF loc[p].attempt = DbAttempts
       THEN /\ pc' = [pc EXCEPT ![p] = "done"]
            /\ result' = [result EXCEPT ![p] = Page(<<>>, FALSE)]
            /\ loc' = loc
       ELSE /\ loc' = [loc EXCEPT ![p].attempt = @ + 1]
            /\ UNCHANGED <<pc, result>>
  /\ hist' = [hist EXCEPT ![p].faults = @ + 1, ![p].tries = @ + 1]
  /\ UNCHANGED <<now, workload, rateVars, conn, dbRows, redis, acked>>

\* an attempt of a DbService method fails (the query rejects; for the insert the
\* row may have been written before the reply was lost).  The third failure
\* throws DatabaseError, which the service's catch rethrows.
DbFault(p) ==
  /\ hist[p].faults < MaxFaults
  /\ pc[p] \in {"db.init", "db.createStake", "db.getStakes"}
  /\ \E written \in BOOLEAN :
       /\ written => (pc[p] = "db.createStake" /\ Len(dbRows) < MaxRows)
       /\ dbRows' = IF written
            THEN Append(dbRows, InsertedRow(dbRows, loc[p].userId, loc[p].amount, loc[p].period))
            ELSE dbRows
       /\ IF loc[p].attempt = DbAttempts
            THEN /\ pc' = [pc EXCEPT ![p] = "done"]
                 /\ result' = [result EXCEPT ![p] = Thrown(ServiceCatch("DatabaseError"))]
                 /\ hist' = [hist EXCEPT ![p].dbError = TRUE, ![p].faults = @ + 1,
                               ![p].tries = @ + 1,
                               ![p].inserted = IF written THEN @ \cup {Len(dbRows) + 1} ELSE @]
                 /\ loc' = loc
            ELSE /\ loc' = [loc EXCEPT ![p].attempt = @ + 1]
                 /\ hist' = [hist EXCEPT ![p].faults = @ + 1, ![p].tries = @ + 1,
                               ![p].inserted = IF written THEN @ \cup {Len(dbRows) + 1} ELSE @]
                 /\ UNCHANGED <<pc, result>>
  /\ UNCHANGED <<now, workload, rateVars, conn, redis, acked>>

----------------------------------------------------------------------------
(* cache.ts: cacheStake, one action per command reaching Redis.  The commands
   of a pipeline are sent in one request but run one by one, so commands of
   other requests can run between them. *)

\* the hash carries the time of caching as the stake's creation time
StakeHashStampedNow(stake) ==
  [id |-> toString(stake.id), amount |-> stringToString(stake.amount),
   period |-> toString(stake.period), userId |-> toString(stake.userId),
   createdAt |-> toString(DateNow), cachedAt |-> toString(DateNow)]

\* the hash cacheStake stores for a stake
StakeHash(stake) ==
  [id |-> toString(stake.id), amount |-> stringToString(stake.amount),
   period |-> toString(stake.period), userId |-> toString(stake.userId),
   createdAt |-> toString(stake.createdAt), cachedAt |-> toString(DateNow)]

\* where the caller of cacheStake goes on once every call has returned:
\* createStake to redis.incr, cacheStakes to the page pipeline
AfterCacheStake(p, cs) ==
  IF ~AllCached(cs) THEN pc[p]
  ELSE IF loc[p].op = "create" THEN "redis.incr" ELSE "page.del"

\* call i of cacheStake moves to `step`
CacheStakeGoes(p, i, step) ==
  LET cs == [loc[p].cs EXCEPT ![i].step = step]
  IN /\ loc' = [loc EXCEPT ![p].cs = cs]
     /\ pc' = [pc EXCEPT ![p] = AfterCacheStake(p, cs)]

\* pipeline.hset(stakeKey, {...})
CacheStakeHSet(p, i) ==
  /\ pc[p] \in {"cacheStake", "cacheStakes"}
  /\ i \in DOMAIN loc[p].cs
  /\ loc[p].cs[i].step = "hset"
  /\ redis' = RedisHSet(redis, StakeKey(loc[p].cs[i].stake.id), StakeHash(loc[p].cs[i].stake))
  /\ CacheStakeGoes(p, i, "expire")
  /\ hist' = Touch(p)
  /\ UNCHANGED <<now, workload, rateVars, conn, dbRows, result, acked>>

\* pipeline.expire(stakeKey, ...)
CacheStakeExpire(p, i) ==
  /\ pc[p] \in {"cacheStake", "cacheStakes"}
  /\ i \in DOMAIN loc[p].cs
  /\ loc[p].cs[i].step = "expire"
  /\ redis' = RedisExpire(redis, StakeKey(loc[p].cs[i].stake.id), CacheExpiry(workload.config))
  /\ CacheStakeGoes(p, i, "lpos")
  /\ hist' = Touch(p)
  /\ UNCHANGED <<now, workload, rateVars, conn, dbRows, result, acked>>

\* const exists = await redis.lpos(userStakesKey, id); if (exists === null) ...
CacheStakeLPos(p, i) ==
  /\ pc[p] \in {"cacheStake", "cacheStakes"}
  /\ i \in DOMAIN loc[p].cs
  /\ loc[p].cs[i].step = "lpos"
  /\ LET stake == loc[p].cs[i].stake
         exists == RedisLPos(redis, UserStakesKey(stake.userId), toString(stake.id))
     IN CacheStakeGoes(p, i, IF exists = Null THEN "lpush" ELSE "done")
  /\ hist' = Touch(p)
  /\ UNCHANGED <<now, workload, rateVars, conn, dbRows, redis, result, acked>>

\* await redis.lpush(userStakesKey, id)
CacheStakeLPush(p, i) ==
  /\ pc[p] \in {"cacheStake", "cacheStakes"}
  /\ i \in DOMAIN loc[p].cs
  /\ loc[p].cs[i].step = "lpush"
  /\ LET stake == loc[p].cs[i].stake
     IN redis' = RedisLPush(redis, UserStakesKey(stake.userId), toString(stake.id))
  /\ CacheStakeGoes(p, i, "done")
  /\ hist' = Touch(p)
  /\ UNCHANGED <<now, workload, rateVars, conn, dbRows, result, acked>>

\* the last failure is rethrown to the caller of cacheStake
CacheStakeFaultThrows(p, i) ==
  /\ hist[p].faults < MaxFaults
  /\ pc[p] \in {"cacheStake", "cacheStakes"}
  /\ i \in DOMAIN loc[p].cs
  /\ loc[p].cs[i].step # "done"
  /\ IF loc[p].cs[i].attempt = MAX_CACHE_RETRIES
       THEN /\ loc' = [loc EXCEPT ![p].cs[i].step = "done"]
            /\ pc' = [pc EXCEPT ![p] = "done"]
            /\ result' = [result EXCEPT ![p] = Thrown(ServiceCatch("Error"))]
       ELSE /\ loc' = [loc EXCEPT ![p].cs[i].attempt = @ + 1, ![p].cs[i].step = "hset"]
            /\ UNCHANGED <<pc, result>>
  /\ hist' = Failed(p)
  /\ UNCHANGED <<now, workload, rateVars, conn, dbRows, redis, acked>>

\* a command of cacheStake rejects: the catch retries from the pipeline, and
\* after the last attempt returns without an error
CacheStakeFault(p, i) ==
  /\ hist[p].faults < MaxFaults
  /\ pc[p] \in {"cacheStake", "cacheStakes"}
  /\ i \in DOMAIN loc[p].cs
  /\ loc[p].cs[i].step # "done"
  /\ IF loc[p].cs[i].attempt = MAX_CACHE_RETRIES
       THEN CacheStakeGoes(p, i, "done")
       ELSE /\ loc' = [loc EXCEPT ![p].cs[i].attempt = @ + 1, ![p].cs[i].step = "hset"]
            /\ pc' = pc
  /\ hist' = Failed(p)
  /\ UNCHANGED <<now, workload, rateVars, conn, dbRows, redis, result, acked>>

----------------------------------------------------------------------------
(* stake/service.ts: createStake after the insert *)

\* createStake returns { success: true, stakeId }
CreateStakeReturns(p) ==
  /\ pc' = [pc EXCEPT ![p] = "done"]
  /\ result' = [result EXCEPT ![p] = Success(loc[p].dbStake[1].id)]
  /\ acked' = acked \cup {loc[p].dbStake[1].id}

\* await redis.incr(userStakesKey)
CreateStakeIncr(p) ==
  /\ pc[p] = "redis.incr"
  /\ redis' = RedisIncrCounter(redis, CounterKey(loc[p].userId))
  /\ pc' = [pc EXCEPT ![p] = "redis.keys"]
  /\ hist' = Touch(p)
  /\ UNCHANGED <<now, workload, rateVars, conn, dbRows, loc, result, acked>>

\* const keys = await redis.keys(userStakesPattern); if (keys.length > 0) ...
CreateStakeKeys(p) ==
  /\ pc[p] = "redis.keys"
  /\ LET keys == RedisKeys(redis, loc[p].userId)
     IN /\ loc' = [loc EXCEPT ![p].keys = keys]
        /\ IF keys # {}
             THEN /\ pc' = [pc EXCEPT ![p] = "redis.del"]
                  /\ UNCHANGED <<result, acked>>
             ELSE CreateStakeReturns(p)
  /\ hist' = Touch(p)
  /\ UNCHANGED <<now, workload, rateVars, conn, dbRows, redis>>

\* the keys found are left in place
CreateStakeDelSkipped(p) ==
  /\ pc[p] = "redis.del"
  /\ redis' = redis
  /\ CreateStakeReturns(p)
  /\ hist' = Touch(p)
  /\ UNCHANGED <<now, workload, rateVars, conn, dbRows, loc>>

\* await redis.del(...keys)
CreateStakeDel(p) ==
  /\ pc[p] = "redis.del"
  /\ redis' = RedisDel(redis, loc[p].keys)
  /\ CreateStakeReturns(p)
  /\ hist' = StillPending(Touch(p), RedisDel(redis, loc[p].keys))
  /\ UNCHANGED <<now, workload, rateVars, conn, dbRows, loc>>

\* redis.incr, redis.keys or redis.del of createStake rejects: the catch
\* of createStake gets an error that is no DatabaseError
CreateStakeRedisFault(p) ==
  /\ hist[p].faults < MaxFaults
  /\ pc[p] \in {"redis.incr", "redis.keys", "redis.del"}
  /\ pc' = [pc EXCEPT ![p] = "done"]
  /\ result' = [result EXCEPT ![p] = Thrown(ServiceCatch("Error"))]
  /\ hist' = Failed(p)
  /\ UNCHANGED <<now, workload, rateVars, conn, dbRows, redis, loc, acked>>

----------------------------------------------------------------------------
(* stake/service.ts: getStakes, with getCachedStake and cacheStakes of cache.ts *)

\* the stake getCachedStake builds from a hash
StakeOfHash(data) ==
  [id |-> parseInt(data.id), amount |-> parseFloat(data.amount),
   period |-> parseInt(data.period), userId |-> parseInt(data.userId),
   createdAt |-> parseInt(data.createdAt)]

\* greater-or-equal: a record is stale from the second its ttl has elapsed
IsStaleAtTtl(data, config) ==
  config.staleWhileRevalidate /\ DateNow - parseInt(data.cachedAt) >= config.ttl * 1000

\* the policy's staleWhileRevalidate switch is not looked at
IsStaleWhateverPolicy(data, config) ==
  DateNow - parseInt(data.cachedAt) > config.ttl * 1000

\* isStale = now - cachedAt > config.ttl * 1000
IsStale(data, config) ==
  config.staleWhileRevalidate /\ DateNow - parseInt(data.cachedAt) > config.ttl * 1000

\* cachedStakes.filter((result) => result.stake !== null).map(...)
RECURSIVE CachedStakes(_)
CachedStakes(gs) ==
  IF gs = <<>> THEN <<>>
  ELSE gs[1].stake \o CachedStakes(Tail(gs))

\* needsRefresh: some stake that was found is stale
NeedsRefresh(gs) == \E i \in DOMAIN gs : gs[i].stake # <<>> /\ gs[i].isStale

\* staleness is ignored: a page whose records are all present is served
ServedFromCacheIgnoringStale(gs) == Len(CachedStakes(gs)) = Len(gs)

\* stakes.length === cachedStakeIds.length && !needsRefresh
ServedFromCache(gs) == Len(CachedStakes(gs)) = Len(gs) /\ ~NeedsRefresh(gs)

\* getStakes(userId, { page, limit }, db, redis) is called
GetStakes(p) ==
  /\ pc[p] = "idle"
  /\ p \in workload.clients
  /\ \E userId \in workload.owners, page \in workload.pages, limit \in workload.limits :
       /\ loc' = [loc EXCEPT ![p] = [NoLoc EXCEPT !.op = "get", !.userId = userId,
                    !.page = page, !.limit = limit]]
       /\ hist' = [hist EXCEPT ![p] = [NoHist EXCEPT !.mustSee =
            {id \in acked : dbRows[id].userId = userId}]]
  /\ pc' = [pc EXCEPT ![p] = "redis.lrange"]
  /\ result' = [result EXCEPT ![p] = NoOutcome]
  /\ UNCHANGED <<now, workload, rateVars, conn, dbRows, redis, acked>>

\* an empty list counts as a cached page
CachedPageFoundAlways(cachedStakeIds) == Len(cachedStakeIds) >= 0

\* if (cachedStakeIds.length > 0)
CachedPageFound(cachedStakeIds) == Len(cachedStakeIds) > 0

\* const cachedStakeIds = await redis.lrange(pageKey, 0, limit - 1)
GetStakesLRange(p) ==
  /\ pc[p] = "redis.lrange"
  /\ LET ids == RedisLRange(redis, PageKey(loc[p].userId, loc[p].page, loc[p].limit),
                            loc[p].limit - 1)
     IN /\ loc' = [loc EXCEPT ![p].cachedStakeIds = ids,
                     ![p].gs = [i \in DOMAIN ids |-> GetCachedStakeCall(ids[i])],
                     ![p].attempt = 1]
        /\ pc' = [pc EXCEPT ![p] = IF CachedPageFound(ids) THEN "getCachedStake" ELSE "db.init"]
  /\ hist' = Touch(p)
  /\ UNCHANGED <<now, workload, rateVars, conn, dbRows, redis, result, acked>>

\* redis.lrange rejects: the catch of getStakes gets an error that is no
\* DatabaseError
GetStakesLRangeFault(p) ==
  /\ hist[p].faults < MaxFaults
  /\ pc[p] = "redis.lrange"
  /\ pc' = [pc EXCEPT ![p] = "done"]
  /\ result' = [result EXCEPT ![p] = Thrown(ServiceCatch("Error"))]
  /\ hist' = Failed(p)
  /\ UNCHANGED <<now, workload, rateVars, conn, dbRows, redis, loc, acked>>

\* getStakes once every getCachedStake has returned: the page from the cache,
\* or on to the database
AfterGetCachedStake(p, gs) ==
  IF \E i \in DOMAIN gs : ~gs[i].done
    THEN UNCHANGED <<pc, result>>
    ELSE IF ServedFromCache(gs)
      THEN /\ pc' = [pc EXCEPT ![p] = "done"]
           /\ result' = [result EXCEPT ![p] = Page(Items(CachedStakes(gs)), TRUE)]
      ELSE /\ pc' = [pc EXCEPT ![p] = "db.init"]
           /\ result' = result

\* const data = await redis.hgetall(stakeKey) and the rest of getCachedStake
GetCachedStake(p, i) ==
  /\ pc[p] = "getCachedStake"
  /\ i \in DOMAIN loc[p].gs
  /\ ~loc[p].gs[i].done
  /\ LET data == RedisHGetAll(redis, StakeKey(parseInt(loc[p].gs[i].id)))
         gs == [loc[p].gs EXCEPT ![i] =
                  IF data = <<>>
                    THEN [@ EXCEPT !.done = TRUE]
                    ELSE [@ EXCEPT !.done = TRUE, !.stake = <<StakeOfHash(data[1])>>,
                                   !.isStale = IsStale(data[1], workload.config)]]
     IN /\ loc' = [loc EXCEPT ![p].gs = gs]
        /\ AfterGetCachedStake(p, gs)
  /\ hist' = Touch(p)
  /\ UNCHANGED <<now, workload, rateVars, conn, dbRows, redis, acked>>

\* the last failure is rethrown to getStakes instead of being turned into
\* { stake: null, isStale: false }
GetCachedStakeFaultThrows(p, i) ==
  /\ hist[p].faults < MaxFaults
  /\ pc[p] = "getCachedStake"
  /\ i \in DOMAIN loc[p].gs
  /\ ~loc[p].gs[i].done
  /\ IF loc[p].gs[i].attempt = MAX_CACHE_RETRIES
       THEN /\ loc' = [loc EXCEPT ![p].gs[i].done = TRUE]
            /\ pc' = [pc EXCEPT ![p] = "done"]
            /\ result' = [result EXCEPT ![p] = Thrown(ServiceCatch("Error"))]
       ELSE /\ loc' = [loc EXCEPT ![p].gs[i].attempt = @ + 1]
            /\ UNCHANGED <<pc, result>>
  /\ hist' = Failed(p)
  /\ UNCHANGED <<now, workload, rateVars, conn, dbRows, redis, acked>>

\* redis.hgetall rejects: getCachedStake retries, and after the last attempt
\* returns { stake: null, isStale: false }
GetCachedStakeFault(p, i) ==
  /\ hist[p].faults < MaxFaults
  /\ pc[p] = "getCachedStake"
  /\ i \in DOMAIN loc[p].gs
  /\ ~loc[p].gs[i].done
  /\ IF loc[p].gs[i].attempt = MAX_CACHE_RETRIES
       THEN LET gs == [loc[p].gs EXCEPT ![i].done = TRUE]
            IN /\ loc' = [loc EXCEPT ![p].gs = gs]
               /\ AfterGetCachedStake(p, gs)
       ELSE /\ loc' = [loc EXCEPT ![p].gs[i].attempt = @ + 1]
            /\ UNCHANGED <<pc, result>>
  /\ hist' = Failed(p)
  /\ UNCHANGED <<now, workload, rateVars, conn, dbRows, redis, acked>>

\* an attempt of DbService.getStakes succeeds; getStakes goes on to
\* cacheStakes, which calls cacheStake for every stake
DbGetStakes(p) ==
  /\ pc[p] = "db.getStakes"
  /\ \E all \in SelectUserOrders(dbRows, loc[p].userId) :
     LET dbStakes == LimitOffset(all, loc[p].page, loc[p].limit)
     IN /\ loc' = [loc EXCEPT ![p].dbStakes = dbStakes,
                     ![p].cs = [i \in DOMAIN dbStakes |-> CacheStakeCall(dbStakes[i])],
                     ![p].attempt = 0]
        /\ pc' = [pc EXCEPT ![p] = IF dbStakes = <<>> THEN "page.del" ELSE "cacheStakes"]
  /\ hist' = [hist EXCEPT ![p].answered = TRUE, ![p].tries = 0,
                ![p].rowsSeen = Len(dbRows)]
  /\ UNCHANGED <<now, workload, rateVars, conn, dbRows, redis, result, acked>>

\* getStakes returns { items, fromCache: false }
GetStakesReturns(p) ==
  /\ pc' = [pc EXCEPT ![p] = "done"]
  /\ result' = [result EXCEPT ![p] = Page(Items(loc[p].dbStakes), FALSE)]

\* stakeIds = stakes.map((stake) => stake.id.toString())
StakeIds(stakes) == [i \in DOMAIN stakes |-> toString(stakes[i].id)]

\* pipeline.del(pageKey)
CacheStakesDel(p) ==
  /\ pc[p] = "page.del"
  /\ redis' = RedisDel(redis, {PageKey(loc[p].userId, loc[p].page, loc[p].limit)})
  /\ IF Len(StakeIds(loc[p].dbStakes)) > 0
       THEN /\ pc' = [pc EXCEPT ![p] = "page.rpush"]
            /\ result' = result
       ELSE GetStakesReturns(p)
  /\ hist' = StillPending(Touch(p),
                RedisDel(redis, {PageKey(loc[p].userId, loc[p].page, loc[p].limit)}))
  /\ UNCHANGED <<now, workload, rateVars, conn, dbRows, loc, acked>>

\* pipeline.rpush(pageKey, ...stakeIds)
CacheStakesRPush(p) ==
  /\ pc[p] = "page.rpush"
  /\ redis' = RedisRPush(redis, PageKey(loc[p].userId, loc[p].page, loc[p].limit),
                         StakeIds(loc[p].dbStakes))
  /\ pc' = [pc EXCEPT ![p] = "page.expire"]
  /\ hist' = Touch(p)
  /\ UNCHANGED <<now, workload, rateVars, conn, dbRows, loc, result, acked>>

\* pipeline.expire(pageKey, ...)
CacheStakesExpire(p) ==
  /\ pc[p] = "page.expire"
  /\ redis' = RedisExpire(redis, PageKey(loc[p].userId, loc[p].page, loc[p].limit),
                          CacheExpiry(workload.config))
  /\ GetStakesReturns(p)
  /\ hist' = Touch(p)
  /\ UNCHANGED <<now, workload, rateVars, conn, dbRows, loc, acked>>

\* the page pipeline rejects: cacheStakes runs it again, and after the last
\* attempt returns without an error
CacheStakesFault(p) ==
  /\ hist[p].faults < MaxFaults
  /\ pc[p] \in {"page.del", "page.rpush", "page.expire"}
  /\ IF loc[p].attempt = MAX_CACHE_RETRIES
       THEN /\ GetStakesReturns(p)
            /\ loc' = loc
       ELSE /\ loc' = [loc EXCEPT ![p].attempt = @ + 1]
            /\ pc' = [pc EXCEPT ![p] = "page.del"]
            /\ result' = result
  /\ hist' = Failed(p)
  /\ UNCHANGED <<now, workload, rateVars, conn, dbRows, redis, acked>>

\* the handler has answered: the request is over
OpEnd(p) ==
  /\ pc[p] = "done"
  /\ pc' = [pc EXCEPT ![p] = "idle"]
  /\ loc' = [loc EXCEPT ![p] = NoLoc]
  /\ result' = [result EXCEPT ![p] = NoOutcome]
  /\ hist' = [hist EXCEPT ![p] = NoHist]
  /\ UNCHANGED <<now, workload, rateVars, conn, dbRows, redis, acked>>

----------------------------------------------------------------------------
(* db-service.ts: the session shared by the DbService objects of a process *)

\* let sqlClient = null; let lastConnectionTime = Date.now(), at module load;
\* no session opened, no DbService constructed
NoConn ==
  [sqlClient |-> Null, lastConnectionTime |-> 0, sessions |-> <<>>,
   sql |-> [p \in Procs |-> Null], outcome |-> [p \in Procs |-> "none"],
   openFailed |-> FALSE, logged |-> {}, awaits |-> [p \in Procs |-> Null]]

\* the session is replaced as soon as its age reaches the maximum
NeedsNewSessionAtMaxAge(client, connectionAge) ==
  client = Null \/ connectionAge >= ConnectionMaxAge * 1000

\* if (!sqlClient || connectionAge > CONNECTION_MAX_AGE)
NeedsNewSession(client, connectionAge) ==
  client = Null \/ connectionAge > ConnectionMaxAge * 1000

\* new DbService(connectionString): the constructor runs without an await, so
\* as one step.  sqlClient.end() may throw at once (caught and logged) or
\* return a promise that settles later; postgres(...) may throw, which the
\* outer catch turns into a DatabaseError.
NewDbService(p) ==
  /\ pc[p] = "idle"
  /\ conn.outcome[p] = "none"
  /\ LET connectionAge == DateNow - conn.lastConnectionTime
         old == conn.sqlClient
     IN IF NeedsNewSession(old, connectionAge)
          THEN \E endThrows \in BOOLEAN, postgresThrows \in BOOLEAN :
                 /\ endThrows => old # Null
                 /\ LET ended == IF old = Null THEN conn.sessions
                                 ELSE IF endThrows THEN conn.sessions
                                 ELSE [conn.sessions EXCEPT ![old] = "closing"]
                        logged == IF endThrows THEN conn.logged \cup {old} ELSE conn.logged
                    IN conn' =
                         IF postgresThrows
                           THEN [conn EXCEPT !.sessions = ended, !.logged = logged,
                                             !.outcome[p] = "DatabaseError",
                                             !.openFailed = TRUE]
                           ELSE [conn EXCEPT !.sessions = Append(ended, "open"),
                                             !.logged = logged,
                                             !.sqlClient = Len(ended) + 1,
                                             !.lastConnectionTime = DateNow,
                                             !.sql[p] = Len(ended) + 1,
                                             !.outcome[p] = "opened",
                                             !.openFailed = FALSE]
          ELSE conn' = [conn EXCEPT !.sql[p] = old, !.outcome[p] = "reused",
                                    !.openFailed = FALSE]
  /\ UNCHANGED <<now, workload, pc, rateVars, dbRows, redis, loc, result, hist, acked>>

\* close() once the promise of end() has settled: `sqlClient = null` after a
\* resolved await, nothing after a rejected one (close() throws)
CloseResumes(client, rejects) == IF rejects THEN client ELSE Null

\* the promise of sqlClient.end() settles: a rejection is logged by the
\* .catch handler the constructor attached; the calls of close() that
\* await it resume
SessionEndSettles(s) ==
  /\ s \in DOMAIN conn.sessions
  /\ conn.sessions[s] \in {"closing", "ending"}
  /\ \E rejects \in BOOLEAN :
       conn' = [conn EXCEPT !.sessions[s] = IF rejects THEN "closeFailed" ELSE "closed",
                            !.logged = IF rejects /\ conn.sessions[s] = "closing"
                                         THEN @ \cup {s} ELSE @,
                            !.sqlClient = IF \E p \in Procs : conn.awaits[p] = s
                                            THEN CloseResumes(@, rejects) ELSE @,
                            !.awaits = [p \in Procs |-> IF @[p] = s THEN Null ELSE @[p]]]
  /\ UNCHANGED <<now, workload, pc, rateVars, dbRows, redis, loc, result, hist, acked>>

\* the sessions a run opens before its requests stop closing them
MaxSessions == 3

\* db.close() on the DbService of request p: `if (sqlClient)` reads the
\* module's session, not this.sql; end() is called on it and the call awaits
\* the promise.  On a session that has already ended the promise is settled
\* and the call goes on at once.
DbClose(p) ==
  /\ conn.outcome[p] \in {"opened", "reused"}
  /\ Len(conn.sessions) < MaxSessions
  /\ conn.awaits[p] = Null
  /\ conn.sqlClient # Null
  /\ LET s == conn.sqlClient
     IN conn' =
          CASE conn.sessions[s] = "open" ->
                 [conn EXCEPT !.sessions[s] = "ending", !.awaits[p] = s]
            [] conn.sessions[s] \in {"closing", "ending"} ->
                 [conn EXCEPT !.awaits[p] = s]
            [] conn.sessions[s] \in {"closed", "closeFailed"} ->
                 [conn EXCEPT !.sqlClient = CloseResumes(@, conn.sessions[s] = "closeFailed")]
  /\ UNCHANGED <<now, workload, pc, rateVars, dbRows, redis, loc, result, hist, acked>>

\* the request that constructed the DbService is over
DbServiceDropped(p) ==
  /\ conn.outcome[p] # "none"
  /\ conn.awaits[p] = Null
  /\ conn' = [conn EXCEPT !.sql[p] = Null, !.outcome[p] = "none"]
  /\ UNCHANGED <<now, workload, pc, rateVars, dbRows, redis, loc, result, hist, acked>>

----------------------------------------------------------------------------

EmptyStore == [k \in {} |-> 0]

\* the state after construction: empty stores, an empty table, no request
Blank ==
  /\ now = 0
  /\ redisRate = EmptyStore
  /\ ghostRate = EmptyStore
  /\ pc = [p \in Procs |-> "idle"]
  /\ req = [p \in Procs |-> NoReq]
  /\ stage = [p \in Procs |-> 0]
  /\ snap = [p \in Procs |-> 0]
  /\ evald = [p \in Procs |-> <<>>]
  /\ rlResult = [p \in Procs |-> NoResult]
  /\ dbRows = <<>>
  /\ redis = EmptyStore
  /\ loc = [p \in Procs |-> NoLoc]
  /\ result = [p \in Procs |-> NoOutcome]
  /\ hist = [p \in Procs |-> NoHist]
  /\ acked = {}
  /\ conn = NoConn

\* the requests a run is made of
Workload(clients, endpoints, owners, pages, limits) ==
  [clients |-> clients, endpoints |-> endpoints, owners |-> owners, pages |-> pages,
   limits |-> limits, config |-> StakeCacheConfig, ties |-> FALSE,
   ips |-> IPs, users |-> UserIds]

Init ==
  /\ Blank
  /\ workload \in {Workload(Procs, {"auth"}, {}, {}, {}), Workload(Procs, {"stakeGet"}, {}, {}, {})}

NextRate ==
  \/ \E p \in Procs : ApplyRateLimit(p)
  \/ \E p \in Procs : CheckRateLimitEval(p)
  \/ \E p \in Procs : CheckRateLimitError(p)
  \/ \E p \in Procs : RequestEnd(p)
  \/ Tick

SpecRate == Init /\ [][NextRate]_vars

\* the origins and the user ids of the runs in which several users send
\* requests from several origins; ids are those of registered users, which
\* are positive
ManyIPs == {"a", "b"}
ManyUserIds == {1, 2}

\* runs in which one user sends requests from two origins, two users send
\* requests from one origin, or anonymous clients send them from two origins
InitRateKeys ==
  /\ Blank
  /\ workload \in
       {[Workload(Procs, {"stakeGet"}, {}, {}, {}) EXCEPT !.ips = ManyIPs],
        [Workload(Procs, {"stakeGet"}, {}, {}, {}) EXCEPT !.users = ManyUserIds],
        [Workload(Procs, {"auth"}, {}, {}, {}) EXCEPT !.ips = ManyIPs]}

\* requests within one window
NextRateKeys ==
  \/ \E p \in Procs : ApplyRateLimit(p)
  \/ \E p \in Procs : CheckRateLimitEval(p)
  \/ \E p \in Procs : CheckRateLimitError(p)
  \/ \E p \in Procs : RequestEnd(p)

SpecRateKeys == InitRateKeys /\ [][NextRateKeys]_vars

\* runs of the stake service: one owner reading the first page while stakes
\* are created
InitStake ==
  /\ Blank
  /\ workload \in {Workload(Procs, {}, UserIds, {1}, {limit}) : limit \in PageLimits}

\* runs in which the stores can fail: requests come one after the other
InitStakeFaults ==
  /\ Blank
  /\ workload \in {Workload({"p1"}, {}, UserIds, {1}, {limit}) : limit \in PageLimits}

\* the steps of createStake and getStakes when neither store fails
NextStake ==
  \/ \E p \in Procs : CreateStake(p)
  \/ \E p \in Procs : GetStakes(p)
  \/ \E p \in Procs : DbInit(p)
  \/ \E p \in Procs : DbCreateStake(p)
  \/ \E p \in Procs : DbGetStakes(p)
  \/ \E p \in Procs, i \in 1..MaxRows : CacheStakeHSet(p, i)
  \/ \E p \in Procs, i \in 1..MaxRows : CacheStakeExpire(p, i)
  \/ \E p \in Procs, i \in 1..MaxRows : CacheStakeLPos(p, i)
  \/ \E p \in Procs, i \in 1..MaxRows : CacheStakeLPush(p, i)
  \/ \E p \in Procs : CreateStakeIncr(p)
  \/ \E p \in Procs : CreateStakeKeys(p)
  \/ \E p \in Procs : CreateStakeDel(p)
  \/ \E p \in Procs : GetStakesLRange(p)
  \/ \E p \in Procs, i \in 1..MaxRows : GetCachedStake(p, i)
  \/ \E p \in Procs : CacheStakesDel(p)
  \/ \E p \in Procs : CacheStakesRPush(p)
  \/ \E p \in Procs : CacheStakesExpire(p)
  \/ \E p \in Procs : OpEnd(p)

SpecStake == InitStake /\ [][NextStake]_vars

\* a command to Redis or a query to the database fails
Faults ==
  \/ \E p \in Procs : DbFault(p)
  \/ \E p \in Procs, i \in 1..MaxRows : CacheStakeFault(p, i)
  \/ \E p \in Procs : CreateStakeRedisFault(p)
  \/ \E p \in Procs : GetStakesLRangeFault(p)
  \/ \E p \in Procs, i \in 1..MaxRows : GetCachedStakeFault(p, i)
  \/ \E p \in Procs : CacheStakesFault(p)

NextStakeFaults == NextStake \/ Faults

\* the cache policies: defaultCacheConfigs.stake, and the same policy with
\* stale-while-revalidate switched off
CacheConfigs == {StakeCacheConfig, [StakeCacheConfig EXCEPT !.staleWhileRevalidate = FALSE]}

\* runs in which time passes: one client, under either cache policy
InitStakeClock ==
  /\ Blank
  /\ workload \in {[Workload({"p1"}, {}, UserIds, {1}, {limit}) EXCEPT !.config = config] :
                     limit \in PageLimits, config \in CacheConfigs}

NextStakeClock == NextStake \/ Tick

\* runs in which the first page is read in every size while stakes are created
InitStakePages ==
  /\ Blank
  /\ workload = Workload(Procs, {}, UserIds, {1}, PageLimits)

SpecStakePages == InitStakePages /\ [][NextStake]_vars

\* runs in which two clients create stakes at nearly the same time and read
\* the first two pages of one stake each
InitStakeTies ==
  /\ Blank
  /\ workload = [Workload(Procs, {}, UserIds, {1, 2}, {1}) EXCEPT !.ties = TRUE]

SpecStakeTies == InitStakeTies /\ [][NextStake]_vars

\* runs in which two clients create and read the stakes of two owners
InitStakeOwners ==
  /\ Blank
  /\ workload = Workload(Procs, {}, ManyUserIds, {1}, {1})

SpecStakeOwners == InitStakeOwners /\ [][NextStake]_vars

\* runs in which DbService objects are constructed as time passes
InitDb ==
  /\ Blank
  /\ workload = Workload(Procs, {}, {}, {}, {})

NextDb ==
  \/ \E p \in Procs : NewDbService(p)
  \/ \E p \in Procs : DbServiceDropped(p)
  \/ \E s \in DOMAIN conn.sessions : SessionEndSettles(s)
  \/ Tick

SpecDb == InitDb /\ [][NextDb]_vars

\* runs in which requests also close the DbService they constructed
NextDbClose ==
  \/ NextDb
  \/ \E p \in Procs : DbClose(p)

SpecDbClose == InitDb /\ [][NextDbClose]_vars

SpecStakeClock == InitStakeClock /\ [][NextStakeClock]_vars

SpecStakeFaults == InitStakeFaults /\ [][NextStakeFaults]_vars

----------------------------------------------------------------------------
(* Properties of the rate limiter, checked under SpecRate *)

GlobalKey(p) == RateKey(req[p].ip, req[p].userId, defaultRateLimits("global"))
EndpointKey(p) == RateKey(req[p].ip, req[p].userId, defaultRateLimits(req[p].configKey))
KeyLimit(key) == LimitOfIdentifier(key[2])
LastEntry(seq) == seq[Len(seq)]

\* p's i-th and q's j-th check are two concurrent checks of one counter: both
\* were issued while it stood at limit - 1, both scripts ran and replied in
\* the window the counter is in now
Raced(p, i, q, j) ==
  /\ p # q
  /\ evald[p][i].key = evald[q][j].key
  /\ evald[p][i].outcome # "error" /\ evald[q][j].outcome # "error"
  /\ evald[p][i].brink /\ evald[q][j].brink
  /\ evald[p][i].cur /\ evald[q][j].cur

\* checkRateLimit of p's i-th check threw RateLimitError
Threw(p, i) ==
  /\ pc[p] = "returned"
  /\ i = Len(evald[p])
  /\ rlResult[p] = [kind |-> "RateLimitError", scope |-> evald[p][i].key[2]]

\* checkRateLimit of p's i-th check returned normally
Succeeded(p, i) ==
  IF i = 1 THEN \/ pc[p] = "check" /\ stage[p] = 2
                \/ pc[p] = "returned" /\ Len(evald[p]) = 2
           ELSE pc[p] = "returned" /\ rlResult[p].kind = "ok"

\* C1: of two concurrent checkRateLimit calls on one counter that stood at
\* limit - 1, exactly one is told "exceeded" and throws RateLimitError, the
\* other succeeds, and the stored count is then exactly limit.
C1_ExactlyOneExceeded ==
  \A p \in Procs, q \in Procs :
    \A i \in DOMAIN evald[p], j \in DOMAIN evald[q] :
      Raced(p, i, q, j) =>
        LET key == evald[p][i].key
            pEx == evald[p][i].outcome = "exceeded"
            qEx == evald[q][j].outcome = "exceeded"
        IN /\ pEx # qEx
           /\ pEx => Threw(p, i) /\ Succeeded(q, j)
           /\ qEx => Threw(q, j) /\ Succeeded(p, i)
           /\ key \in DOMAIN redisRate
           /\ redisRate[key].count = KeyLimit(key)

C1_Witness ==
  \E p \in Procs, q \in Procs :
    \E i \in DOMAIN evald[p], j \in DOMAIN evald[q] :
      /\ Raced(p, i, q, j)
      /\ evald[p][i].key[2] = "global"
      /\ redisRate[evald[p][i].key].count = GlobalLimit

\* C2: a counter never holds more than its limit, never admits more than limit
\* calls in one window, and its count never decreases while the key exists.
C2_WithinLimit ==
  \A k \in DOMAIN redisRate :
    /\ redisRate[k].count <= KeyLimit(k)
    /\ ghostRate[k].admitted <= KeyLimit(k)

C2_NeverDecreases ==
  \A k \in DOMAIN redisRate :
    k \in DOMAIN redisRate' => redisRate'[k].count >= redisRate[k].count

C2_BoundedMonotonic == [](C2_WithinLimit) /\ [][C2_NeverDecreases]_vars

\* a full counter has turned a call away
C2_Witness ==
  \E p \in Procs : \E i \in DOMAIN evald[p] :
    /\ evald[p][i].outcome = "exceeded"
    /\ evald[p][i].cur
    /\ evald[p][i].key \in DOMAIN redisRate
    /\ ghostRate[evald[p][i].key].admitted = KeyLimit(evald[p][i].key)

\* C7: when redis.eval errors, checkRateLimit returns normally: no
\* RateLimitError names that scope, after an error in the global check the
\* endpoint check is still made, and a request whose checks only passed or
\* errored proceeds.
C7_FailOpen ==
  \A p \in Procs : \A i \in DOMAIN evald[p] :
    evald[p][i].outcome = "error" =>
      /\ ~Threw(p, i)
      /\ Succeeded(p, i)
      /\ (i = 1 /\ pc[p] = "returned") =>
            /\ evald[p][2].key = EndpointKey(p)
            /\ (evald[p][2].outcome # "exceeded" => rlResult[p].kind = "ok")

\* the global check errored, the endpoint check was made, the request proceeds
C7_Witness ==
  \E p \in Procs :
    /\ pc[p] = "returned"
    /\ Len(evald[p]) = 2
    /\ evald[p][1].outcome = "error"
    /\ evald[p][2].outcome = "ok"
    /\ rlResult[p].kind = "ok"

\* C8: applyRateLimit checks the global scope first and the endpoint's second,
\* on keys of one subject; the first exceeded scope ends it with a
\* RateLimitError naming that scope; when the global scope is exceeded no
\* check of the endpoint counter is made and that counter is left as it is.
C8_Order ==
  \A p \in Procs :
    /\ Len(evald[p]) <= 2
    /\ Len(evald[p]) >= 1 => evald[p][1].key = GlobalKey(p)
    /\ Len(evald[p]) = 2 =>
         /\ evald[p][2].key = EndpointKey(p)
         /\ evald[p][1].outcome # "exceeded"
         /\ evald[p][2].key[3] = evald[p][1].key[3]
         /\ evald[p][2].key[4] = evald[p][1].key[4]
    /\ \A i \in DOMAIN evald[p] : evald[p][i].outcome = "exceeded" => Threw(p, i)
    /\ rlResult[p].kind = "RateLimitError" =>
         /\ LastEntry(evald[p]).outcome = "exceeded"
         /\ rlResult[p].scope = LastEntry(evald[p]).key[2]
    /\ (rlResult[p].kind = "RateLimitError" /\ rlResult[p].scope = "global") =>
         Len(evald[p]) = 1

C8_EndpointUntouched ==
  \A p \in Procs :
    (pc[p] = "check" /\ rlResult'[p] = [kind |-> "RateLimitError", scope |-> "global"]) =>
      /\ EndpointKey(p) \in DOMAIN redisRate <=> EndpointKey(p) \in DOMAIN redisRate'
      /\ EndpointKey(p) \in DOMAIN redisRate =>
           redisRate'[EndpointKey(p)] = redisRate[EndpointKey(p)]

C8_GlobalThenEndpoint == [](C8_Order) /\ [][C8_EndpointUntouched]_vars

\* a request was turned away by the global scope
C8_Witness ==
  \E p \in Procs :
    /\ rlResult[p] = [kind |-> "RateLimitError", scope |-> "global"]
    /\ Len(evald[p]) = 1
    /\ EndpointKey(p) \in DOMAIN redisRate

\* C9: a check whose script finds count >= limit is told "exceeded" and the
\* counter store is exactly as before: no count and no expiry has changed.
C9_Step ==
  \A p \in Procs :
    ( /\ pc[p] = "check"
      /\ Len(evald'[p]) = Len(evald[p]) + 1
      /\ CountOf(redisRate, KeyOfStage(p)) >= ConfigOfStage(p).limit )
    => /\ redisRate' = redisRate
       /\ LastEntry(evald'[p]).outcome # "error" =>
            /\ LastEntry(evald'[p]).outcome = "exceeded"
            /\ rlResult'[p] = [kind |-> "RateLimitError",
                               scope |-> ConfigOfStage(p).identifier]

C9_ExceededLeavesStore == [][C9_Step]_vars

C9_Witness ==
  \E p \in Procs : \E i \in DOMAIN evald[p] :
    /\ evald[p][i].outcome = "exceeded"
    /\ evald[p][i].cur
    /\ redisRate[evald[p][i].key].count = KeyLimit(evald[p][i].key)

\* C10: every counter has an expiry, set when the key is created at count 1 to
\* `window` seconds from then; no later step changes it, so the key lives
\* until `window` seconds after its first admitted request.
C10_FixedExpiry ==
  \A k \in DOMAIN redisRate :
    /\ redisRate[k].expireAt # NoExpiry
    /\ redisRate[k].expireAt = ghostRate[k].firstAt + Window
    /\ now < redisRate[k].expireAt

C10_Step ==
  \A k \in DOMAIN redisRate' :
    IF k \in DOMAIN redisRate
      THEN redisRate'[k].expireAt = redisRate[k].expireAt
      ELSE redisRate'[k] = [count |-> 1, expireAt |-> now + Window]

C10_FixedWindow == [](C10_FixedExpiry) /\ [][C10_Step]_vars

\* a check was admitted in a later second of a counter's window
C10_Witness ==
  \E k \in DOMAIN redisRate :
    /\ ghostRate[k].late
    /\ redisRate[k].count >= 2

----------------------------------------------------------------------------
(* Claims on createStake and getStakes *)

\* a request of process p has finished
Finished(p, op) == pc[p] = "done" /\ loc[p].op = op

\* the page shows stake id, or is full of stakes created after it
Shows(items, id, limit) ==
  \/ \E i \in DOMAIN items : items[i].id = id
  \/ Len(items) = limit /\ \A i \in DOMAIN items : items[i].id > id

\* C3: a read of an owner's first page that starts after a createStake of the
\* owner returned success includes the created stake, whatever other reads and
\* writes of the owner run concurrently.
C3_ReadYourOwnWrite ==
  \A p \in Procs :
    (Finished(p, "get") /\ result[p].kind = "page" /\ loc[p].page = 1)
      => \A id \in hist[p].mustSee : Shows(result[p].items, id, loc[p].limit)

\* C4: once the insert has succeeded, createStake returns
\* { success: true, stakeId } whatever command to Redis fails afterwards.
C4_WriteSurvivesCacheFailure ==
  \A p \in Procs :
    (Finished(p, "create") /\ loc[p].dbStake # <<>>)
      => result[p] = Success(loc[p].dbStake[1].id)

\* C5: when db.init or db.createStake gives up after its retries, createStake
\* ends with a DatabaseError and has sent no command to Redis.
C5_PersistFailureAborts ==
  \A p \in Procs :
    (Finished(p, "create") /\ hist[p].dbError)
      => (result[p].kind = "DatabaseError" /\ ~hist[p].touched)

\* a createStake gave up on the database at its third attempt
C5_Witness ==
  \E p \in Procs :
    /\ Finished(p, "create") /\ hist[p].dbError
    /\ loc[p].attempt = DbAttempts
    /\ result[p].kind = "DatabaseError"

\* C6: no failure of a command to Redis fails getStakes: when the database
\* answered, getStakes returns the database's page, and the only error
\* createStake and getStakes end with is DatabaseError.
C6_OnlyStoreErrors ==
  \A p \in Procs :
    /\ pc[p] = "done" => result[p].kind # "Error"
    /\ (Finished(p, "get") /\ hist[p].answered)
         => result[p] = Page(Items(loc[p].dbStakes), FALSE)

----------------------------------------------------------------------------
(* Claims on the windows of the rate limiter and of the cache *)

\* a counter is gone once `window` seconds have passed since it was created
C11_WindowEnds ==
  \A k \in DOMAIN redisRate : now < ghostRate[k].firstAt + Window

\* a script that runs on an absent counter admits the call and starts a window
C11_Step ==
  \A p \in Procs :
    (/\ pc[p] = "check"
     /\ KeyOfStage(p) \notin DOMAIN redisRate
     /\ Len(evald'[p]) = Len(evald[p]) + 1
     /\ LastEntry(evald'[p]).cur)
      => /\ LastEntry(evald'[p]).outcome # "exceeded"
         /\ KeyOfStage(p) \in DOMAIN redisRate'
         /\ redisRate'[KeyOfStage(p)] = [count |-> 1, expireAt |-> now + Window]

\* a check was refused by a counter that has expired since, and a later check
\* of the same counter was admitted into a new window with count 1
C11_Witness ==
  \E p \in Procs, q \in Procs :
    \E i \in DOMAIN evald[p] :
      /\ evald[p][i].outcome = "exceeded" /\ ~evald[p][i].cur
      /\ evald[q] # <<>>
      /\ LastEntry(evald[q]).key = evald[p][i].key
      /\ LastEntry(evald[q]).outcome = "ok" /\ LastEntry(evald[q]).cur
      /\ LastEntry(evald[q]).key \in DOMAIN redisRate
      /\ redisRate[LastEntry(evald[q]).key].count = 1

\* the runs of the rate limiter in which time keeps passing
SpecRateFair == SpecRate /\ WF_vars(Tick)

\* an exhausted counter whose window ends before the clock of the model stops
\* is gone eventually
C11_Recovers ==
  \A c \in {"global", "auth", "stakeGet"}, ip \in IPs, userId \in UserIds \cup {Null} :
    LET k == RateKey(ip, userId, defaultRateLimits(c))
    IN (/\ k \in DOMAIN redisRate
        /\ redisRate[k].count = KeyLimit(k)
        /\ redisRate[k].expireAt <= MaxTime) ~> (k \notin DOMAIN redisRate)

\* C11: an exhausted counter is gone once `window` seconds have passed since
\* it was created, and the next checkRateLimit of its scope and subject is
\* admitted and starts a new window with count 1; as time keeps passing, an
\* exhausted counter always goes away.
C11_WindowReset == [](C11_WindowEnds) /\ [][C11_Step]_vars /\ C11_Recovers

\* the seconds since cacheStake wrote the hash of stake id
Elapsed(id) == now - (parseInt(redis[StakeKey(id)].fields.cachedAt) \div 1000)

\* a record of the store as getCachedStake returns it: the same fields, the
\* amount as the number its decimal text denotes
AsRead(stake) == [stake EXCEPT !.amount = [float |-> @.text]]

\* call i of getCachedStake in request p reads a hash that is present
ReadsPresent(p, i) ==
  /\ pc[p] = "getCachedStake"
  /\ i \in DOMAIN loc[p].gs
  /\ ~loc[p].gs[i].done /\ loc'[p].gs[i].done
  /\ hist'[p].faults = hist[p].faults
  /\ StakeKey(parseInt(loc[p].gs[i].id)) \in DOMAIN redis

\* the read returns the stake, stale from the second ttl has elapsed
C12_StepAtTtl ==
  \A p \in Procs, i \in 1..MaxRows :
    (ReadsPresent(p, i) /\ workload.config.staleWhileRevalidate) =>
      LET id == parseInt(loc[p].gs[i].id)
      IN /\ loc'[p].gs[i].stake = <<AsRead(dbRows[id])>>
         /\ loc'[p].gs[i].isStale = (Elapsed(id) >= StakeTtl)

\* C12 as stated: after cacheStake of a stake, getCachedStake returns the
\* stake with isStale = false immediately and isStale = true once ttl seconds
\* have elapsed since the put, under the stale-while-revalidate policy.
C12_StaleOnceTtlElapsed == [][C12_StepAtTtl]_vars

\* the read returns the stake, stale once more than ttl has elapsed
C12_StepAfterTtl ==
  \A p \in Procs, i \in 1..MaxRows :
    (ReadsPresent(p, i) /\ workload.config.staleWhileRevalidate) =>
      LET id == parseInt(loc[p].gs[i].id)
      IN /\ loc'[p].gs[i].stake = <<AsRead(dbRows[id])>>
         /\ loc'[p].gs[i].isStale = (Elapsed(id) > StakeTtl)

\* C12, amended: after cacheStake of a stake, getCachedStake returns the stake
\* with isStale = false until ttl seconds have elapsed since the put, the
\* second at which exactly ttl has elapsed included, and isStale = true once
\* more than ttl has elapsed, under the stale-while-revalidate policy.
C12_StaleAfterTtl == [][C12_StepAfterTtl]_vars

\* a getCachedStake has returned a stake that is present and stale
C12_Witness ==
  /\ workload.config.staleWhileRevalidate
  /\ \E p \in Procs : \E i \in DOMAIN loc[p].gs :
       /\ loc[p].gs[i].done
       /\ loc[p].gs[i].stake # <<>>
       /\ loc[p].gs[i].isStale

\* the lifetime the claim gives a record under a policy
Lifetime(config) ==
  IF config.staleWhileRevalidate THEN StakeTtl + StakeStaleTime ELSE StakeTtl

\* the seconds since the put of stake id set the expiry of its hash
Age(id) == now - (redis[StakeKey(id)].expireAt - Lifetime(workload.config))

\* the expire command of cacheStake gives the hash, when it is still there,
\* the lifetime of the policy
C13_ExpirySet ==
  \A p \in Procs, i \in 1..MaxRows :
    (/\ pc[p] \in {"cacheStake", "cacheStakes"}
     /\ i \in DOMAIN loc[p].cs
     /\ loc[p].cs[i].step = "expire"
     /\ loc'[p].cs[i].step = "lpos"
     /\ StakeKey(loc[p].cs[i].stake.id) \in DOMAIN redis)
      => redis'[StakeKey(loc[p].cs[i].stake.id)].expireAt = now + Lifetime(workload.config)

\* a hash with an expiry is absent from the second the expiry is reached
C13_AbsentAfterwards ==
  \A k \in DOMAIN redis : redis[k].expireAt # NoExpiry => now < redis[k].expireAt

\* what getCachedStake returns of a hash whose expiry is set
C13_Read ==
  \A p \in Procs, i \in 1..MaxRows :
    (ReadsPresent(p, i)
       /\ redis[StakeKey(parseInt(loc[p].gs[i].id))].expireAt # NoExpiry) =>
      LET id == parseInt(loc[p].gs[i].id)
      IN IF workload.config.staleWhileRevalidate
           THEN /\ Age(id) < StakeTtl + StakeStaleTime
                /\ Age(id) > StakeTtl => loc'[p].gs[i].isStale
                /\ loc'[p].gs[i].stake # <<>>
           ELSE /\ Age(id) < StakeTtl
                /\ ~loc'[p].gs[i].isStale

----------------------------------------------------------------------------
(* Claims on the pages *)

\* what request p found: a cached page whose every id resolved to a record
\* that is present and not stale
FoundFreshPage(p) ==
  /\ loc[p].cachedStakeIds # <<>>
  /\ \A i \in DOMAIN loc[p].gs :
       /\ loc[p].gs[i].stake # <<>>
       /\ ~loc[p].gs[i].isStale

\* C14: getStakes returns fromCache = true, without a call to the database,
\* exactly when it found a cached page whose every id resolved to a present,
\* non-stale record, and then returns those records; in every other case it
\* queries the database and returns its page with fromCache = false.
C14_HitOrFullMiss ==
  \A p \in Procs :
    (Finished(p, "get") /\ result[p].kind = "page") =>
      /\ result[p].fromCache <=> FoundFreshPage(p)
      /\ result[p].fromCache =>
           /\ ~hist[p].answered
           /\ result[p].items =
                Items([i \in DOMAIN loc[p].gs |-> loc[p].gs[i].stake[1]])
      /\ ~result[p].fromCache =>
           /\ hist[p].answered
           /\ result[p].items = Items(loc[p].dbStakes)

\* a getStakes found its page cached and every record present, one of them
\* stale, and went to the database
C14_Witness ==
  \E p \in Procs :
    /\ Finished(p, "get") /\ result[p].kind = "page"
    /\ ~result[p].fromCache
    /\ loc[p].cachedStakeIds # <<>>
    /\ \A i \in DOMAIN loc[p].gs : loc[p].gs[i].stake # <<>>
    /\ \E i \in DOMAIN loc[p].gs : loc[p].gs[i].isStale

\* the page entries of an owner that are cached in a store
OwnerPages(store, userId) ==
  {PageKey(userId, page, limit) : page \in workload.pages, limit \in workload.limits}
    \cap DOMAIN store

\* the page lookup of getStakes returns no id for the key
PageAbsent(store, key) == RedisLRange(store, key, key[7] - 1) = <<>>

\* redis.keys finds every cached page of the owner, and redis.del leaves every
\* page it found absent
C15_Step ==
  \A p \in Procs :
    /\ (pc[p] = "redis.keys" /\ pc'[p] # "redis.keys") =>
         /\ loc'[p].keys = OwnerPages(redis, loc[p].userId)
         /\ pc'[p] = "done" => OwnerPages(redis', loc[p].userId) = {}
    /\ (pc[p] = "redis.del" /\ pc'[p] = "done") =>
         /\ loc[p].keys # {}
         /\ \A key \in loc[p].keys : PageAbsent(redis', key)

\* C15: when the invalidation of createStake (redis.keys, then redis.del)
\* completes, the page lookup of every page and page size of the owner that
\* was cached when the invalidation started finds the page absent.
C15_InvalidationClearsPages == [][C15_Step]_vars

\* a createStake has returned after deleting the owner's first page in two
\* page sizes, and no page of the owner is cached
C15_Witness ==
  \E p \in Procs :
    /\ Finished(p, "create") /\ result[p].kind = "success"
    /\ Cardinality(loc[p].keys) = 2
    /\ OwnerPages(redis, loc[p].userId) = {}

\* the id lists cacheStakes can be asked to store for a page: the pages of the
\* table as it was after some number of insertions
PageWrites(key) ==
  {StakeIds(QueryStakes(SubSeq(dbRows, 1, n), key[2], key[5], key[7])) : n \in 0..Len(dbRows)}

\* C16: the page write of cacheStakes replaces the page entry atomically:
\* whatever page writes ran or interleaved on a key, the stored list is the
\* ordered id list of one of them, never a concatenation or mixture of two
\* and never a list with an id twice.
C16_PageIsOneWrite ==
  \A key \in DOMAIN redis :
    MatchesPagePattern(key, key[2]) => redis[key].items \in PageWrites(key)

----------------------------------------------------------------------------
(* Claims on the owner's list of stake ids *)

\* C17: adding a stake's id to its owner's user:<owner>:stake_ids list is
\* idempotent: after any number of cacheStake calls for a stake, retried or
\* concurrent, the list holds the id exactly once.
C17_IdListedOnce ==
  \A userId \in UserIds :
    LET ids == RedisList(redis, UserStakesKey(userId))
    IN \A i \in DOMAIN ids, j \in DOMAIN ids : ids[i] = ids[j] => i = j

----------------------------------------------------------------------------
(* Claims on DbService *)

DbCalls == {"db.init", "db.createStake", "db.getStakes"}

\* a call of DbService never starts a fourth attempt
C18_AttemptsBounded ==
  \A p \in Procs :
    /\ hist[p].tries <= DbAttempts
    /\ pc[p] \in DbCalls => hist[p].tries < DbAttempts

\* what an attempt of a call of DbService leads to
C18_Step ==
  \A p \in Procs :
    (pc[p] \in DbCalls /\ (pc'[p] # pc[p] \/ hist'[p] # hist[p])) =>
      IF hist'[p].tries = hist[p].tries + 1
        THEN \* the attempt failed
             IF hist'[p].tries = DbAttempts
               THEN pc'[p] = "done" /\ result'[p].kind = "DatabaseError"
               ELSE /\ pc'[p] = pc[p] /\ result'[p] = result[p]
                    /\ loc'[p].dbStake = loc[p].dbStake
                    /\ loc'[p].dbStakes = loc[p].dbStakes
        ELSE \* the attempt succeeded: the call returns its result
             /\ pc'[p] \notin {pc[p], "done"}
             /\ result'[p] = result[p]
             /\ pc[p] = "db.createStake" =>
                  /\ Len(dbRows') = Len(dbRows) + 1
                  /\ loc'[p].dbStake = <<dbRows'[Len(dbRows')]>>
             /\ pc[p] = "db.getStakes" =>
                  loc'[p].dbStakes =
                    QueryStakes(dbRows, loc[p].userId, loc[p].page, loc[p].limit)

\* C18: DbService.init, createStake and getStakes make at most 3 attempts,
\* return the result of the first attempt that succeeds, and throw
\* DatabaseError exactly when all 3 attempts have failed; a failure is never
\* swallowed nor returned as a normal result.
C18_ThreeAttempts == [](C18_AttemptsBounded) /\ [][C18_Step]_vars

\* DbService.getStakes has thrown DatabaseError after three failed attempts
C18_Witness ==
  \E p \in Procs :
    /\ Finished(p, "get")
    /\ hist[p].tries = DbAttempts
    /\ result[p].kind = "DatabaseError"

\* request p constructs a DbService in this step
Constructs(p) == conn.outcome[p] = "none" /\ conn'.outcome[p] # "none"

\* the constructor of request p reuses the module's session
Reuses(p) ==
  /\ conn'.outcome[p] = "reused"
  /\ conn'.sql[p] = conn.sqlClient
  /\ conn'.sqlClient = conn.sqlClient
  /\ conn'.lastConnectionTime = conn.lastConnectionTime
  /\ conn'.sessions = conn.sessions

\* the constructor of request p opens a session, installs it, records its
\* creation time and has started to close the old one (or logged the error
\* of starting to)
Replaces(p) ==
  /\ conn'.outcome[p] = "opened"
  /\ conn'.sqlClient \notin DOMAIN conn.sessions
  /\ conn'.sqlClient \in DOMAIN conn'.sessions
  /\ conn'.sessions[conn'.sqlClient] = "open"
  /\ conn'.sql[p] = conn'.sqlClient
  /\ conn'.lastConnectionTime = now * 1000
  /\ conn.sqlClient # Null =>
       \/ conn'.sessions[conn.sqlClient] = "closing"
       \/ conn.sqlClient \in conn'.logged

\* an error of closing a session changes nothing but the log, and the
\* constructor throws only when opening the new session failed
CloseErrorsOnlyLogged ==
  /\ \A p \in Procs : (Constructs(p) /\ conn'.outcome[p] = "DatabaseError") => conn'.openFailed
  /\ (conn'.logged # conn.logged /\ \A p \in Procs : ~Constructs(p)) =>
       /\ conn'.sqlClient = conn.sqlClient
       /\ conn'.lastConnectionTime = conn.lastConnectionTime
       /\ conn'.sql = conn.sql
       /\ conn'.outcome = conn.outcome

\* the constructor reuses the session when its age is below the maximum
C19_StepBelow ==
  /\ CloseErrorsOnlyLogged
  /\ \A p \in Procs :
       Constructs(p) =>
         IF conn.sqlClient # Null
              /\ now * 1000 - conn.lastConnectionTime < ConnectionMaxAge * 1000
           THEN Reuses(p)
           ELSE conn'.openFailed \/ Replaces(p)

\* C19 as stated: constructing a DbService reuses the module's session when
\* there is one and its age is below the maximum, and otherwise opens a new
\* session, records its creation time and starts closing the old one; an
\* error of closing is logged, never reaches the caller and never keeps the
\* new session from being installed.
C19_ReuseBelowMaxAge == [][C19_StepBelow]_vars

\* the constructor reuses the session when its age is at most the maximum
C19_StepUpTo ==
  /\ CloseErrorsOnlyLogged
  /\ \A p \in Procs :
       Constructs(p) =>
         IF conn.sqlClient # Null
              /\ now * 1000 - conn.lastConnectionTime <= ConnectionMaxAge * 1000
           THEN Reuses(p)
           ELSE conn'.openFailed \/ Replaces(p)

\* C19, amended: constructing a DbService reuses the module's session when
\* there is one and its age is at most the maximum (the maximum included),
\* and opens a new session only when there is none or its age exceeds the
\* maximum; the rest as stated.
C19_ReuseUpToMaxAge == [][C19_StepUpTo]_vars

\* a constructor has installed a second session although closing the first
\* one failed
C19_Witness ==
  \E p \in Procs :
    /\ conn.outcome[p] = "opened"
    /\ conn.sqlClient = 2 /\ conn.sql[p] = 2
    /\ 1 \in conn.logged


\* request p holds the answer of the store to its getStakes
StoreBacked(p) == loc[p].op = "get" /\ hist[p].answered

\* the ids of the stakes the store returned to request p
StoreIds(p) == {loc[p].dbStakes[i].id : i \in DOMAIN loc[p].dbStakes}

\* the stakes of request p's owner in the table request p read
OwnerStakes(p) == SelectUser(SubSeq(dbRows, 1, hist[p].rowsSeen), loc[p].userId)

\* the answer to request p is the page of some order of the owner's stakes by
\* creation time descending
C20_IsPage(p) ==
  \E all \in SelectUserOrders(SubSeq(dbRows, 1, hist[p].rowsSeen), loc[p].userId) :
    loc[p].dbStakes = LimitOffset(all, loc[p].page, loc[p].limit)

\* C20: the store-backed getStakes returns the stakes at positions
\* (page-1)*limit .. page*limit-1 of the owner's stakes ordered by creation
\* time descending, so that the answers for consecutive pages of one table
\* are disjoint, and the first two pages of an owner with at most 2*limit
\* stakes together hold all of them.
C20_PagesPartition ==
  \A p, q \in Procs :
    (/\ StoreBacked(p) /\ StoreBacked(q)
     /\ loc[p].userId = loc[q].userId /\ loc[p].limit = loc[q].limit
     /\ hist[p].rowsSeen = hist[q].rowsSeen
     /\ loc[q].page = loc[p].page + 1)
    => /\ C20_IsPage(p) /\ C20_IsPage(q)
       /\ StoreIds(p) \cap StoreIds(q) = {}
       /\ (loc[p].page = 1 /\ Len(OwnerStakes(p)) <= 2 * loc[p].limit) =>
            StoreIds(p) \cup StoreIds(q) = {OwnerStakes(p)[i].id : i \in DOMAIN OwnerStakes(p)}


\* the answers the store gave or could give for the page request p reads: the
\* page, in an order by creation time descending, of the table as it was after
\* some number of insertions
StoreAnswers(p) ==
  UNION {{Items(LimitOffset(all, loc[p].page, loc[p].limit)) :
            all \in SelectUserOrders(SubSeq(dbRows, 1, n), loc[p].userId)} :
         n \in 0..Len(dbRows)}

\* C21: a cache-hit read of (owner, page, limit) returns the sequence of
\* items a store-backed read of that page returned: the same items in the
\* same order, each with the same id, amount and period.
C21_CacheHitMatchesStore ==
  \A p \in Procs :
    (Finished(p, "get") /\ result[p].kind = "page" /\ result[p].fromCache)
      => result[p].items \in StoreAnswers(p)


----------------------------------------------------------------------------
(* Claims on the cache functions *)

\* call i of getCachedStake of request p is in progress
Reading(p, i) ==
  pc[p] = "getCachedStake" /\ i \in DOMAIN loc[p].gs /\ ~loc[p].gs[i].done

\* what getCachedStake returns for an entry that is absent
AbsentResult(call) == call.stake = <<>> /\ ~call.isStale

\* no call of getCachedStake starts a fourth attempt
C22_AttemptsBounded ==
  \A p \in Procs : \A i \in DOMAIN loc[p].gs : loc[p].gs[i].attempt <= MAX_CACHE_RETRIES

\* what an attempt of a call of getCachedStake leads to
C22_Step ==
  \A p \in Procs : \A i \in 1..MaxRows :
    (Reading(p, i) /\ loc'[p].gs[i] # loc[p].gs[i]) =>
      /\ result'[p].kind \in {"none", "page"}
      /\ IF hist'[p].faults = hist[p].faults + 1
           THEN \* the attempt failed
                IF loc[p].gs[i].attempt = MAX_CACHE_RETRIES
                  THEN loc'[p].gs[i].done /\ AbsentResult(loc'[p].gs[i])
                  ELSE ~loc'[p].gs[i].done
           ELSE \* the attempt succeeded
                /\ loc'[p].gs[i].done
                /\ StakeKey(parseInt(loc[p].gs[i].id)) \notin DOMAIN redis =>
                     AbsentResult(loc'[p].gs[i])

\* C22: getCachedStake never raises an error: for an entry that is absent it
\* returns no stake with isStale = false, and when all of its 3 attempts
\* have failed it returns the same, so that getStakes goes on as after a miss.
C22_ReadFailureIsMiss == [](C22_AttemptsBounded) /\ [][C22_Step]_vars

\* a call of getCachedStake has returned no stake after its third failed
\* attempt, and getStakes went on to the database
C22_Witness ==
  \E p \in Procs : \E i \in DOMAIN loc[p].gs :
    /\ loc[p].gs[i].done /\ loc[p].gs[i].attempt = MAX_CACHE_RETRIES
    /\ hist[p].faults = MAX_CACHE_RETRIES + 1
    /\ AbsentResult(loc[p].gs[i])
    /\ pc[p] = "db.init"


----------------------------------------------------------------------------
(* Claims on the rate-limit keys *)

\* the scope of the i-th check of a request: global first, then the endpoint's
ScopeOfCheck(p, i) ==
  IF i = 1 THEN "global" ELSE defaultRateLimits(req[p].configKey).identifier

\* the subject of request p: its user when the user id is known, else its origin
SubjectOf(p) ==
  IF req[p].userId # Null THEN <<"user", req[p].userId>> ELSE <<"ip", req[p].ip>>

\* every check of a request counts on the key of the request's subject and
\* of the check's scope
C23_KeyOfSubject ==
  \A p \in Procs : \A i \in DOMAIN evald[p] :
    evald[p][i].key = <<"ratelimit", ScopeOfCheck(p, i)>> \o SubjectOf(p)

\* C23: the subject key is user:<id> for a request with a known user id and
\* ip:<origin> otherwise: checks of one scope by the same user count on one
\* key whatever their origins, and checks by different users never count on
\* the same key.
C23_SubjectKey ==
  /\ C23_KeyOfSubject
  /\ \A p, q \in Procs : \A i \in DOMAIN evald[p] : \A j \in DOMAIN evald[q] :
       (req[p].userId # Null /\ req[q].userId # Null) =>
         /\ (req[p].userId = req[q].userId /\ ScopeOfCheck(p, i) = ScopeOfCheck(q, j))
              => evald[p][i].key = evald[q][j].key
         /\ req[p].userId # req[q].userId => evald[p][i].key # evald[q][j].key

\* two requests of one user from different origins were counted on the same
\* key, which stands at two
C23_Witness ==
  \E p, q \in Procs :
    /\ req[p].userId # Null /\ req[p].userId = req[q].userId
    /\ req[p].ip # req[q].ip
    /\ Len(evald[p]) >= 1 /\ Len(evald[q]) >= 1
    /\ evald[p][1].key = evald[q][1].key
    /\ CountOf(redisRate, evald[p][1].key) = 2


----------------------------------------------------------------------------
(* Claims on the order of the steps of createStake *)

\* the awaits of createStake, in the order of the code
CreateOrder ==
  [db_init |-> {"db.init", "db.createStake", "done"},
   db_createStake |-> {"db.createStake", "cacheStake", "done"},
   cacheStake |-> {"cacheStake", "redis.incr"},
   redis_incr |-> {"redis.incr", "redis.keys", "done"},
   redis_keys |-> {"redis.keys", "redis.del", "done"},
   redis_del |-> {"redis.del", "done"}]

\* where createStake can be after an await it is at
AfterAwait(at) ==
  CASE at = "db.init" -> CreateOrder.db_init
    [] at = "db.createStake" -> CreateOrder.db_createStake
    [] at = "cacheStake" -> CreateOrder.cacheStake
    [] at = "redis.incr" -> CreateOrder.redis_incr
    [] at = "redis.keys" -> CreateOrder.redis_keys
    [] at = "redis.del" -> CreateOrder.redis_del
    [] OTHER -> {"idle", "db.init", "done"}

\* createStake goes through persist, record cache, counter and invalidation
\* in this order, and returns success only from the invalidation
C24_Step ==
  \A p \in Procs :
    (loc[p].op = "create" /\ pc[p] # "done") =>
      /\ pc'[p] \in AfterAwait(pc[p])
      /\ result'[p].kind = "success" => pc[p] \in {"redis.keys", "redis.del"}

\* at the return of success no page entry that was cached when the row was
\* persisted has been in the store ever since
C24_PagesGone ==
  \A p \in Procs :
    (Finished(p, "create") /\ result[p].kind = "success") => hist[p].pending = {}

\* C24: createStake persists, populates the record cache and invalidates the
\* owner's pages in this order, all before it returns: when it returns
\* success, every page key of the owner that existed when the persist
\* completed has been deleted.
C24_InvalidatedBeforeReturn == [](C24_PagesGone) /\ [][C24_Step]_vars

\* a createStake returns success having deleted a page that was cached when
\* it persisted its row
C24_Witness ==
  \E p \in Procs :
    /\ Finished(p, "create") /\ result[p].kind = "success"
    /\ hist[p].atPersist # {}
    /\ hist[p].atPersist \subseteq loc[p].keys
    /\ hist[p].atPersist \cap DOMAIN redis = {}


----------------------------------------------------------------------------
(* Claims on the slow path of getStakes *)

\* getStakes of request p returns from the slow path in this step
SlowPathReturns(p) ==
  /\ loc[p].op = "get" /\ hist[p].answered
  /\ pc[p] # "done" /\ pc'[p] = "done"
  /\ result'[p].kind = "page"

\* the page entry of request p holds the ids of the stakes the store returned
PageHolds(store, p) ==
  LET key == PageKey(loc[p].userId, loc[p].page, loc[p].limit)
  IN IF loc[p].dbStakes = <<>>
       THEN key \notin DOMAIN store
       ELSE key \in DOMAIN store /\ store[key].items = StakeIds(loc[p].dbStakes)

\* the stake has a cache record written at the present clock reading
RecordFresh(store, stake, clock) ==
  /\ StakeKey(stake.id) \in DOMAIN store
  /\ store[StakeKey(stake.id)].fields.id = toString(stake.id)
  /\ store[StakeKey(stake.id)].fields.cachedAt = toString(clock)

\* what holds when getStakes returns from the slow path without a failure
C25_Step ==
  \A p \in Procs :
    (SlowPathReturns(p) /\ hist'[p].faults = 0) =>
      /\ PageHolds(redis', p)
      /\ \A i \in DOMAIN loc[p].dbStakes : RecordFresh(redis', loc[p].dbStakes[i], DateNow)
      /\ result'[p].items = Items(loc[p].dbStakes)
      /\ ~result'[p].fromCache

\* C25: when getStakes takes the slow path and no cache operation fails, at
\* its return the page key of (owner, page, limit) holds exactly the ids the
\* store returned, in the store's order, every returned stake has a cache
\* record with cachedAt = now, and the items returned are the store's result.
C25_SlowPathRepopulates == [][C25_Step]_vars

\* a read returns from the slow path while its page entry lists an id twice
C25_DuplicatedPage ==
  \E p \in Procs :
    /\ Finished(p, "get") /\ hist[p].answered /\ Len(loc[p].dbStakes) = 1
    /\ PageKey(loc[p].userId, loc[p].page, loc[p].limit) \in DOMAIN redis
    /\ Len(redis[PageKey(loc[p].userId, loc[p].page, loc[p].limit)].items) = 2


----------------------------------------------------------------------------
(* Claims on the cache writes *)

\* the runs with failing stores in which every await settles: Redis and the
\* database answer every command, with a result or an error
SpecStakeFaultsFair == SpecStakeFaults /\ WF_vars(NextStakeFaults)

\* request p is inside cacheStake or cacheStakes
InCacheWrite(p) == pc[p] \in {"cacheStake", "cacheStakes", "page.del", "page.rpush", "page.expire"}

\* neither function starts a fourth attempt
C26_AttemptsBounded ==
  \A p \in Procs :
    /\ \A i \in DOMAIN loc[p].cs : loc[p].cs[i].attempt <= MAX_CACHE_RETRIES
    /\ pc[p] \in {"page.del", "page.rpush", "page.expire"} => loc[p].attempt <= MAX_CACHE_RETRIES

\* what a step of cacheStake or of the page write of cacheStakes leads to
C26_Step ==
  \A p \in Procs :
    InCacheWrite(p) =>
      /\ result'[p].kind \in {"none", "success", "page"}
      /\ \A i \in DOMAIN loc[p].cs :
           (pc[p] \in {"cacheStake", "cacheStakes"} /\ loc'[p].cs[i] # loc[p].cs[i]
              /\ hist'[p].faults = hist[p].faults + 1) =>
             IF loc[p].cs[i].attempt = MAX_CACHE_RETRIES
               THEN /\ loc'[p].cs[i].step = "done"
                    /\ pc'[p] \in {pc[p], "redis.incr", "page.del"}
               ELSE /\ loc'[p].cs[i].attempt = loc[p].cs[i].attempt + 1
                    /\ loc'[p].cs[i].step = "hset"
      /\ (pc[p] \in {"page.del", "page.rpush", "page.expire"}
            /\ hist'[p].faults = hist[p].faults + 1) =>
           IF loc[p].attempt = MAX_CACHE_RETRIES
             THEN pc'[p] = "done" /\ result'[p] = Page(Items(loc[p].dbStakes), FALSE)
             ELSE pc'[p] = "page.del" /\ loc'[p].attempt = loc[p].attempt + 1

\* a request inside cacheStake or cacheStakes gets out of it
C26_Returns == \A p \in Procs : InCacheWrite(p) ~> ~InCacheWrite(p)

\* C26: cacheStake and cacheStakes always terminate and never raise: each
\* makes at most 3 attempts of its writes and, when all have failed,
\* returns normally to its caller.
C26_CacheWritesReturn == [](C26_AttemptsBounded) /\ [][C26_Step]_vars /\ C26_Returns

\* createStake has returned success although all three attempts of
\* cacheStake failed and the stake has no cache record
C26_Witness ==
  \E p \in Procs :
    /\ Finished(p, "create") /\ result[p].kind = "success"
    /\ loc[p].cs[1].attempt = MAX_CACHE_RETRIES
    /\ hist[p].faults = MAX_CACHE_RETRIES + 1
    /\ StakeKey(loc[p].dbStake[1].id) \notin DOMAIN redis


----------------------------------------------------------------------------
(* Claims on the staleness flag *)

\* call i of getCachedStake in request p returns in this step
ReadReturns(p, i) ==
  /\ pc[p] = "getCachedStake"
  /\ i \in DOMAIN loc[p].gs
  /\ ~loc[p].gs[i].done /\ loc'[p].gs[i].done

\* the flag the statement gives a read of a key at a clock reading
StaleFlag(store, key, config, clock) ==
  /\ key \in DOMAIN store
  /\ config.staleWhileRevalidate
  /\ clock * 1000 - store[key].fields.cachedAt.text > config.ttl * 1000

\* the flag returned is the one the statement gives
C27_Step ==
  \A p \in Procs, i \in 1..MaxRows :
    ReadReturns(p, i) =>
      loc'[p].gs[i].isStale =
        StaleFlag(redis, StakeKey(loc[p].gs[i].id.text), workload.config, now)

\* C27: for every cached entry, policy and clock value, the isStale flag
\* getCachedStake returns is (now - cachedAt) > ttl * 1000 when
\* stale-while-revalidate is enabled for the policy, and false when it is
\* disabled or the entry is absent.
C27_StaleFlag == [][C27_Step]_vars

\* under the policy without stale-while-revalidate a read returned, not
\* stale, a stake whose record is older than ttl
C27_Witness ==
  /\ ~workload.config.staleWhileRevalidate
  /\ \E p \in Procs : \E i \in DOMAIN loc[p].gs :
       /\ loc[p].gs[i].done
       /\ loc[p].gs[i].stake # <<>>
       /\ ~loc[p].gs[i].isStale
       /\ StakeKey(loc[p].gs[i].id.text) \in DOMAIN redis
       /\ Elapsed(loc[p].gs[i].id.text) > StakeTtl
       /\ pc[p] = "done"


----------------------------------------------------------------------------
(* Claims on the cache as a copy of the store *)

\* the cache record carries the fields of the row
CopyOf(fields, row) ==
  /\ fields.id = [text |-> row.id]
  /\ fields.userId = [text |-> row.userId]
  /\ fields.amount = row.amount
  /\ fields.period = [text |-> row.period]
  /\ fields.createdAt = [text |-> row.createdAt]

\* C28: in every reachable state every present cache record stake:<id>
\* carries the id, owner, amount, period and creation time of the row of the
\* store with that id, under any interleaving of reads and writes.
C28_RecordsCopyRows ==
  \A key \in DOMAIN redis :
    key[1] = "stake" =>
      /\ key[2] \in DOMAIN dbRows
      /\ CopyOf(redis[key].fields, dbRows[key[2]])

\* both clients have written the record of the same stake, one creating it
\* and one reading it from the store, and every row has its record
C28_Witness ==
  /\ Len(dbRows) = MaxRows
  /\ \A id \in DOMAIN dbRows : StakeKey(id) \in DOMAIN redis
  /\ \E p, q \in Procs :
       /\ Finished(p, "create") /\ result[p].kind = "success"
       /\ Finished(q, "get") /\ hist[q].answered
       /\ \E i \in DOMAIN loc[q].dbStakes : loc[q].dbStakes[i].id = loc[p].dbStake[1].id


----------------------------------------------------------------------------
(* Claims on what the invalidation leaves alone *)

\* the key has the form user:<userId>:stakes:page:<page>:limit:<limit>
IsPageOf(key, userId) ==
  /\ Len(key) = 7
  /\ key[1] = "user" /\ key[2] = userId
  /\ key[3] = "stakes" /\ key[4] = "page" /\ key[6] = "limit"

\* request p looks for the owner's pages or deletes them in this step
Invalidates(p) ==
  /\ loc[p].op = "create"
  /\ pc[p] \in {"redis.keys", "redis.del"} /\ pc'[p] # pc[p]

\* the invalidation removes pages of the owner and touches nothing else
C29_Step ==
  \A p \in Procs :
    Invalidates(p) =>
      /\ DOMAIN redis' \subseteq DOMAIN redis
      /\ \A key \in DOMAIN redis :
           IF IsPageOf(key, loc[p].userId)
             THEN key \in DOMAIN redis' => redis'[key] = redis[key]
             ELSE key \in DOMAIN redis' /\ redis'[key] = redis[key]

\* C29: the page invalidation of createStake for owner u deletes only keys
\* of the form user:<u>:stakes:page:*: it leaves unchanged every page entry
\* of every other owner, every stake:<id> record, the owner's counter
\* user:<u>:stakes and the owner's collection user:<u>:stake_ids.
C29_InvalidationFrame == [][C29_Step]_vars

\* a createStake has deleted a page of its owner while a page of another
\* owner, the owner's counter and collection and a stake record are cached
C29_Witness ==
  \E p \in Procs : \E other \in workload.owners \ {loc[p].userId} :
    /\ Finished(p, "create") /\ result[p].kind = "success"
    /\ loc[p].keys # {}
    /\ loc[p].keys \cap DOMAIN redis = {}
    /\ RedisKeys(redis, other) # {}
    /\ CounterKey(loc[p].userId) \in DOMAIN redis
    /\ UserStakesKey(loc[p].userId) \in DOMAIN redis
    /\ StakeKey(loc[p].dbStake[1].id) \in DOMAIN redis


----------------------------------------------------------------------------
(* Claims on the retries of the insert *)

\* C30: a single call of DbService.createStake inserts at most one row,
\* whichever of its attempts fail and are retried, an attempt whose insert
\* was applied but whose result was lost included.
C30_AtMostOneRow ==
  \A p \in Procs : Cardinality(hist[p].inserted) <= 1

----------------------------------------------------------------------------
(* routes/stake.ts: handleStakePost and handleStakeGet, which await         *)
(* applyRateLimit and then call the stake service                           *)

\* the catch swallows the RateLimitError: the handler goes on to the service
HandlerProceedsAlways(r) == r.kind # "none"

\* `await applyRateLimit(...)` resolved: a RateLimitError it throws is caught
\* by the handler's catch, which answers with handleError(error)
HandlerProceeds(r) == r.kind = "ok"

\* handleStakePost after applyRateLimit: the body is validated and
\* createStake(user.id, validatedData, db, redis) is called
HandleStakePost(p) ==
  /\ pc[p] = "returned"
  /\ req[p].configKey = "stakeCreate"
  /\ HandlerProceeds(rlResult[p])
  /\ Len(dbRows) < MaxRows
  /\ \E amount \in Amounts, period \in Periods :
       loc' = [loc EXCEPT ![p] = [NoLoc EXCEPT !.op = "create", !.userId = req[p].userId,
                 !.amount = amount, !.period = period, !.attempt = 1]]
  /\ pc' = [pc EXCEPT ![p] = "db.init"]
  /\ result' = [result EXCEPT ![p] = NoOutcome]
  /\ hist' = [hist EXCEPT ![p] = NoHist]
  /\ UNCHANGED <<now, workload, rateVars, conn, dbRows, redis, acked>>

\* handleStakeGet after applyRateLimit: the pagination parameters are
\* validated and getStakes(user.id, { page, limit }, db, redis) is called
HandleStakeGet(p) ==
  /\ pc[p] = "returned"
  /\ req[p].configKey = "stakeGet"
  /\ HandlerProceeds(rlResult[p])
  /\ \E page \in workload.pages, limit \in workload.limits :
       /\ loc' = [loc EXCEPT ![p] = [NoLoc EXCEPT !.op = "get", !.userId = req[p].userId,
                    !.page = page, !.limit = limit]]
       /\ hist' = [hist EXCEPT ![p] = [NoHist EXCEPT !.mustSee =
            {id \in acked : dbRows[id].userId = req[p].userId}]]
  /\ pc' = [pc EXCEPT ![p] = "redis.lrange"]
  /\ result' = [result EXCEPT ![p] = NoOutcome]
  /\ UNCHANGED <<now, workload, rateVars, conn, dbRows, redis, acked>>

\* runs of the two stake handlers: the registered user sends POST and GET
\* requests for the first page
InitHandlers ==
  /\ Blank
  /\ workload = Workload({"p1"}, {"stakeCreate", "stakeGet"}, UserIds, {1}, {1})

\* the steps of the handlers within one window; RequestEnd is the handler
\* answering without a call of the service (handleError)
NextHandlers ==
  \/ \E p \in workload.clients : ApplyRateLimit(p)
  \/ \E p \in workload.clients : CheckRateLimitEval(p)
  \/ \E p \in workload.clients : CheckRateLimitError(p)
  \/ \E p \in workload.clients : RequestEnd(p)
  \/ \E p \in workload.clients : HandleStakePost(p)
  \/ \E p \in workload.clients : HandleStakeGet(p)
  \/ \E p \in workload.clients : DbInit(p)
  \/ \E p \in workload.clients : DbCreateStake(p)
  \/ \E p \in workload.clients : DbGetStakes(p)
  \/ \E p \in workload.clients, i \in 1..MaxRows : CacheStakeHSet(p, i)
  \/ \E p \in workload.clients, i \in 1..MaxRows : CacheStakeExpire(p, i)
  \/ \E p \in workload.clients, i \in 1..MaxRows : CacheStakeLPos(p, i)
  \/ \E p \in workload.clients, i \in 1..MaxRows : CacheStakeLPush(p, i)
  \/ \E p \in workload.clients : CreateStakeIncr(p)
  \/ \E p \in workload.clients : CreateStakeKeys(p)
  \/ \E p \in workload.clients : CreateStakeDel(p)
  \/ \E p \in workload.clients : GetStakesLRange(p)
  \/ \E p \in workload.clients, i \in 1..MaxRows : GetCachedStake(p, i)
  \/ \E p \in workload.clients : CacheStakesDel(p)
  \/ \E p \in workload.clients : CacheStakesRPush(p)
  \/ \E p \in workload.clients : CacheStakesExpire(p)
  \/ \E p \in workload.clients : OpEnd(p)

SpecHandlers == InitHandlers /\ [][NextHandlers]_vars

----------------------------------------------------------------------------
(* Properties of the stake handlers, checked under SpecHandlers *)

\* request p is inside createStake or getStakes
StakeWork(p) == pc[p] \notin {"idle", "check", "returned"}

\* applyRateLimit of request p has resolved: both checks were made and
\* neither found its limit exceeded
Admitted(p) ==
  /\ rlResult[p].kind = "ok"
  /\ Len(evald[p]) = 2
  /\ \A i \in DOMAIN evald[p] : evald[p][i].outcome # "exceeded"

\* a request inside the stake service has been admitted by both checks
C31_WorkIsAdmitted == \A p \in workload.clients : StakeWork(p) => Admitted(p)

\* a step taken while the request is not inside the service and has not been
\* admitted leaves the table, the stake cache and the request's locals alone
\* and does not enter the service
C31_Step ==
  \A p \in workload.clients :
    (~StakeWork(p) /\ ~(pc[p] = "returned" /\ Admitted(p)))
      => /\ UNCHANGED <<dbRows, redis, loc, result, hist, acked, conn>>
         /\ ~StakeWork(p)'

\* C31: in handleStakePost and handleStakeGet the rate-limit check completes
\* before any stake work starts; a request rejected with RateLimitError makes
\* no query or insert on the table and no read or write of the stake cache
C31_RateLimitBeforeStakeWork == [](C31_WorkIsAdmitted) /\ [][C31_Step]_vars

\* a POST is rejected with RateLimitError while a stake exists and is cached
\* and the table has room for another row
C31_Witness ==
  \E p \in workload.clients :
    /\ pc[p] = "returned"
    /\ rlResult[p].kind = "RateLimitError"
    /\ req[p].configKey = "stakeCreate"
    /\ Len(dbRows) > 0
    /\ Len(dbRows) < MaxRows
    /\ redis # EmptyStore
    /\ loc[p] = NoLoc

----------------------------------------------------------------------------
(* Properties of the counters of one applyRateLimit call, checked under SpecRate *)

\* the keys of the two counters of the call of request p
GlobalKeyOf(p) == RateKey(req[p].ip, req[p].userId, defaultRateLimits("global"))
EndpointKeyOf(p) == RateKey(req[p].ip, req[p].userId, defaultRateLimits(req[p].configKey))

\* the step in which the global check of p's call ends without a rejection
PassedGlobal(p) == pc[p] = "check" /\ stage[p] = 1 /\ stage'[p] = 2

\* the step in which the global check of p's call throws RateLimitError
RejectedByGlobal(p) == pc[p] = "check" /\ stage[p] = 1 /\ pc'[p] = "returned"

\* the step in which the endpoint's check of p's call ends, either way
EndpointCheckEnds(p) == pc[p] = "check" /\ stage[p] = 2 /\ pc'[p] = "returned"

\* the outcome of the check that ends in this step
OutcomeNow(p) == evald'[p][Len(evald'[p])].outcome

\* the change of a counter in this step
Added(key) == CountOf(redisRate', key) - CountOf(redisRate, key)

\* what holds of every call, whatever the store does
C32_Frame(p) ==
  /\ PassedGlobal(p) => Added(EndpointKeyOf(p)) = 0
  /\ EndpointCheckEnds(p) => Added(GlobalKeyOf(p)) = 0
  /\ RejectedByGlobal(p) => Added(GlobalKeyOf(p)) = 0 /\ Added(EndpointKeyOf(p)) = 0

\* C32 as stated: every call not rejected by the global limit increments the
\* subject's global counter by exactly one
C32_StepAsStated ==
  \A p \in Procs : C32_Frame(p) /\ (PassedGlobal(p) => Added(GlobalKeyOf(p)) = 1)

C32_EveryCallCounted == [][C32_StepAsStated]_vars

\* the global check got the script's reply: one is added; redis.eval failed
\* and the call went on: the script ran or did not, at most one is added
C32_Step ==
  \A p \in Procs :
    /\ C32_Frame(p)
    /\ PassedGlobal(p) /\ OutcomeNow(p) = "ok" => Added(GlobalKeyOf(p)) = 1
    /\ PassedGlobal(p) /\ OutcomeNow(p) = "error" => Added(GlobalKeyOf(p)) \in {0, 1}

\* C32 (amended): a call whose global check gets the script's reply and is not
\* rejected adds exactly one to the subject's global counter, whether the
\* endpoint's limit then admits or rejects it; a call whose global check
\* fails on a store error goes on with zero or one added; the endpoint's check
\* leaves the global counter alone; a call rejected by the global limit
\* changes neither counter
C32_RepliedCallCounted == [][C32_Step]_vars

\* a call was counted by the global check and then rejected by the endpoint's
\* limit, and the global counter holds its increment
C32_Witness ==
  \E p \in Procs :
    /\ pc[p] = "returned"
    /\ rlResult[p].kind = "RateLimitError"
    /\ Len(evald[p]) = 2
    /\ evald[p][1].outcome = "ok" /\ evald[p][1].cur
    /\ evald[p][2].outcome = "exceeded"
    /\ CountOf(redisRate, GlobalKeyOf(p)) >= 1

----------------------------------------------------------------------------
(* Properties of DbService.close(), checked under SpecDbClose *)

\* the step in which a DbService is constructed for request p and bound to a session
BoundNow(p) == conn.sql[p] = Null /\ conn'.sql[p] # Null

\* end() has been called on session s
EndCalled(c, s) == c.sessions[s] # "open"

C33_Step == \A p \in Procs : BoundNow(p) => ~EndCalled(conn', conn'.sql[p])

\* C33: under every interleaving of constructions, age-based renewal and
\* close(), the session a DbService is bound to at construction is one on
\* which end() has not been called
C33_NeverBoundToEndedSession == [][C33_Step]_vars

----------------------------------------------------------------------------
(* Properties of pages without stakes, checked under SpecStakeTies *)

IsPageKey(key) == Len(key) = 7 /\ key[1] = "user" /\ key[4] = "page"

\* the page has no stake in the table
EmptyPage(userId, page, limit) == QueryStakes(dbRows, userId, page, limit) = <<>>

\* every page entry of the cache holds at least one id and is the entry of a
\* page that has stakes
C34_NeverCached ==
  \A key \in DOMAIN redis :
    IsPageKey(key) => redis[key].items # <<>> /\ ~EmptyPage(key[2], key[5], key[7])

\* an answer from the cache has items; the answer to a read of a page that
\* has no stake comes from the table, which was queried, and has no items
C34_NeverServed ==
  \A p \in Procs :
    (pc[p] = "done" /\ loc[p].op = "get" /\ result[p].kind = "page")
      => /\ result[p].fromCache => result[p].items # <<>>
         /\ EmptyPage(loc[p].userId, loc[p].page, loc[p].limit)
              => /\ ~result[p].fromCache
                 /\ result[p].items = <<>>
                 /\ hist[p].answered

\* redis.lrange for a page without stakes is a miss: getStakes goes on to the
\* table; cacheStakes with no stakes deletes the page key, writes nothing and
\* returns
C34_Step ==
  \A p \in Procs :
    /\ (pc[p] = "redis.lrange" /\ pc'[p] # pc[p]
          /\ EmptyPage(loc[p].userId, loc[p].page, loc[p].limit))
         => loc'[p].cachedStakeIds = <<>> /\ pc'[p] = "db.init"
    /\ (pc[p] = "page.del" /\ pc'[p] # pc[p] /\ loc[p].dbStakes = <<>>)
         => /\ redis' = RedisDel(redis, {PageKey(loc[p].userId, loc[p].page, loc[p].limit)})
            /\ pc'[p] = "done"
            /\ result'[p] = Page(<<>>, FALSE)

\* C34: a page with zero stakes is never cached and never served from cache:
\* cacheStakes with an empty stake list deletes the page key and writes
\* nothing, getStakes treats an empty cached list as a miss, and every read of
\* an empty page queries the table and returns fromCache = false
C34_EmptyPageNotCached == [](C34_NeverCached /\ C34_NeverServed) /\ [][C34_Step]_vars

\* a read of the second page has returned no items from the table while the
\* owner has a stake, and the cache has no entry for the page
C34_Witness ==
  \E p \in Procs :
    /\ pc[p] = "done" /\ loc[p].op = "get" /\ loc[p].page = 2
    /\ result[p] = Page(<<>>, FALSE)
    /\ hist[p].answered
    /\ SelectUser(dbRows, loc[p].userId) # <<>>
    /\ PageKey(loc[p].userId, 2, loc[p].limit) \notin DOMAIN redis
    /\ PageKey(loc[p].userId, 1, loc[p].limit) \in DOMAIN redis

====
